---- MODULE Spec2Model ----
(***************************************************************************)
(* Model of the NeuroPilot acquisition core: RingBuffer, AcquisitionThread *)
(* and EEGWorker (src/eeg_worker.py) and the calibration capture of        *)
(* EEGModule (src/eeg_module.py).                                          *)
(*                                                                         *)
(* A sample row is modelled by its stamp: the k-th row ever produced is    *)
(* the number k, the zero rows of a fresh buffer are 0.  Every RingBuffer  *)
(* operation moves whole rows (the channel axis is always sliced with      *)
(* ':'), so the channel values themselves are not represented.             *)
(***************************************************************************)
EXTENDS Integers, Sequences, FiniteSets, TLC

VARIABLES
    rb,        \* the RingBuffer object: maxlen, buf, idx, full
    hist,      \* every row appended so far, in order (history variable)
    ret,       \* the result of the most recent get_last call
    lastOp,    \* the most recent operation and its arguments (history variable)
    capture_state,  \* EEGModule._capture_state
    train_samples,  \* EEGModule._train_samples: the two TrialSets
    capture_done,   \* the capture that last ran _finish_capture (history variable)
    wr,        \* _on_data_received in progress: position inside append, its chunk
    rd,        \* _perform_prediction in progress: position inside get_last, its locals
    acq_thread,     \* EEGWorker.acq_thread: 0 is None, otherwise a thread object
    last_config,    \* EEGWorker.last_config (its 'mode'; "none" for the empty dict)
    threads,        \* the AcquisitionThread objects created so far
    workerQ,        \* signals queued to the worker's thread, in emission order
    ex,             \* where the GUI thread and the worker's thread are in EEGWorker code
    model_csp,      \* EEGWorker.model_csp: the CSP object and the training run that set it
    scaler,         \* EEGWorker.scaler: the training run that last fitted it (0: never)
    model_clf,      \* EEGWorker.model_clf: the classifier and the training run that set it
    model_ready,    \* EEGWorker.model_ready
    predict_timer,  \* EEGWorker.predict_timer.isActive()
    train_runs,     \* the train_model calls so far and how each ended (history variable)
    mlOp,           \* the most recent model operation and its outcome (history variable)
    config,         \* EEGWorker.last_config of the session view: mode, srate, n_channels
    thread,         \* the AcquisitionThread of the session view, with the locals of run()
    sigQ,           \* signals of the session view queued to the worker's thread
    sig_connected,  \* connection-outcome events delivered on EEGWorker.sig_connected
    runtime,        \* EEGWorker.srate, n_channels, buffer shape, log header
    stopper,        \* stop_acquisition calls in progress in the session view
    call,           \* one call of a pure function: its arguments and its result
    task,           \* TaskModule: _running, _loop_left, pending timers, emitted events
    logio           \* EEGWorker.csv_file / csv_writer and the statements that use them

rbVars == <<rb, hist, ret>>
calVars == <<capture_state, train_samples, capture_done>>
flowVars == <<wr, rd>>
acqVars == <<acq_thread, last_config, threads, workerQ, ex>>
mlVars == <<model_csp, scaler, model_clf, model_ready, predict_timer,
            train_runs, mlOp>>
sessVars == <<config, thread, sigQ, sig_connected, runtime, stopper>>
pureVars == <<call, task, logio>>
extVars == <<mlVars, sessVars, pureVars>>
restVars == <<rb, hist, ret, lastOp, capture_state, train_samples, capture_done,
              wr, rd, extVars>>
vars == <<rb, hist, ret, lastOp, capture_state, train_samples, capture_done,
          wr, rd, acq_thread, last_config, threads, workerQ, ex,
          model_csp, scaler, model_clf, model_ready, predict_timer,
          train_runs, mlOp,
          config, thread, sigQ, sig_connected, runtime, stopper, call, task,
          logio>>

----------------------------------------------------------------------------
(* Bounds of the RingBuffer specification *)
MaxCap == 3      \* largest capacity a RingBuffer is constructed with
MaxChunk == 4    \* largest number of rows in one chunk
MaxRows == 7     \* rows appended over one behaviour
MaxN == 5        \* largest n asked of get_last

Min(a, b) == IF a < b THEN a ELSE b
Max(a, b) == IF a > b THEN a ELSE b

(* Python/numpy basic slicing s[a:b] on the row axis: a negative bound     *)
(* counts from the end, both bounds are clamped to 0..len, and an empty    *)
(* or inverted range yields no rows.  Positions are 0-based as in Python.  *)
PyIndex(x, L) == IF x < 0 THEN Max(0, x + L) ELSE Min(x, L)
PySlice(s, a, b) ==
    LET lo == PyIndex(a, Len(s))
        hi == PyIndex(b, Len(s))
    IN  IF lo < hi THEN SubSeq(s, lo + 1, hi) ELSE <<>>
PySliceFrom(s, a) == PySlice(s, a, Len(s))
PySliceTo(s, b) == PySlice(s, 0, b)

(* buf[start : start + len(rows)] = rows, a slice assignment of matching   *)
(* length.                                                                 *)
AssignRows(buf, start, rows) ==
    [i \in 1..Len(buf) |->
        IF start < i /\ i <= start + Len(rows) THEN rows[i - start] ELSE buf[i]]

(* The k rows that follow a stream of which `sofar` rows were produced.    *)
Rows(sofar, k) == [i \in 1..k |-> sofar + i]

(* The last n rows of a sequence of at least n rows.                       *)
LastRows(s, n) == SubSeq(s, Len(s) - n + 1, Len(s))

(* get_last results: None, or an array of rows.                            *)
None == [ok |-> FALSE, rows |-> <<>>]
Array(rows) == [ok |-> TRUE, rows |-> rows]

----------------------------------------------------------------------------
(* class RingBuffer *)

RingBuffer(maxlen) ==
    [maxlen |-> maxlen, buf |-> [i \in 1..maxlen |-> 0], idx |-> 0, full |-> FALSE]

(* append, chunk longer than the buffer: keep the tail, restart the cursor *)
AppendBigDropsTail(b, samples) ==
    [b EXCEPT !.buf = PySliceTo(samples, b.maxlen), !.idx = 0, !.full = TRUE]
AppendBig(b, samples) ==
    [b EXCEPT !.buf = PySliceFrom(samples, 0 - b.maxlen), !.idx = 0, !.full = TRUE]

(* append, chunk fits before the end of the store *)
AppendFit(b, samples) ==
    [b EXCEPT !.buf = AssignRows(b.buf, b.idx, samples),
              !.idx = b.idx + Len(samples)]

(* append, chunk runs over the end of the store *)
AppendWrapKeepsCursor(b, samples) ==
    LET remain == b.maxlen - b.idx
        overflow == Len(samples) - remain
        filled == AssignRows(b.buf, b.idx, PySliceTo(samples, remain))
    IN  [b EXCEPT !.buf = AssignRows(filled, 0, PySliceFrom(samples, remain)),
                  !.idx = b.idx,
                  !.full = TRUE]
AppendWrap(b, samples) ==
    LET remain == b.maxlen - b.idx
        overflow == Len(samples) - remain
        filled == AssignRows(b.buf, b.idx, PySliceTo(samples, remain))
    IN  [b EXCEPT !.buf = AssignRows(filled, 0, PySliceFrom(samples, remain)),
                  !.idx = overflow,
                  !.full = TRUE]

(* the closing test of append: a cursor at the end goes back to 0 *)
WrapCursorStaysAtEnd(b) == b
WrapCursor(b) ==
    IF b.idx >= b.maxlen THEN [b EXCEPT !.idx = 0, !.full = TRUE] ELSE b

append(b, samples) ==
    LET n == Len(samples)
        remain == b.maxlen - b.idx
    IN  IF n = 0 THEN b
        ELSE IF n > b.maxlen THEN AppendBig(b, samples)
        ELSE IF n <= remain THEN WrapCursor(AppendFit(b, samples))
        ELSE WrapCursor(AppendWrap(b, samples))

get_last_swapped(b, n) ==
    IF ~b.full /\ b.idx < n THEN None
    ELSE IF b.idx >= n THEN Array(PySlice(b.buf, b.idx - n, b.idx))
    ELSE Array(PySliceTo(b.buf, b.idx) \o PySliceFrom(b.buf, b.idx - n + b.maxlen))
get_last(b, n) ==
    IF ~b.full /\ b.idx < n THEN None
    ELSE IF b.idx >= n THEN Array(PySlice(b.buf, b.idx - n, b.idx))
    ELSE Array(PySliceFrom(b.buf, b.idx - n + b.maxlen) \o PySliceTo(b.buf, b.idx))

----------------------------------------------------------------------------
(* Specification of the RingBuffer alone: one buffer of some capacity,     *)
(* appended to in chunks of every size and read with every n.              *)

NoOp == [op |-> "none", n |-> 0, tag |-> ""]

(* EEGModule.__init__: no capture, two empty TrialSets *)
CaptureNone == [active |-> FALSE]
CalInit ==
    /\ capture_state = CaptureNone
    /\ train_samples = [left |-> <<>>, right |-> <<>>]
    /\ capture_done = CaptureNone

(* neither flow is inside the RingBuffer *)
WriterIdle == [pc |-> "idle", chunk |-> <<>>]
ReaderIdle == [pc |-> "idle", n |-> 0, a |-> 0, b |-> 0, seen |-> {}]
FlowInit ==
    /\ wr = WriterIdle
    /\ rd = ReaderIdle

(* Bounds of the acquisition specification *)
MaxThreads == 3  \* AcquisitionThread objects created over one behaviour
MaxData == 1     \* data_ready emissions recorded per thread
MaxQueue == 2    \* queued signals beyond which a thread holds back its next chunk

ThreadIds == 1..MaxThreads
Modes == {"demo", "serial", "bluetooth", "tcp"}
Executors == {"gui", "worker"}

(* AcquisitionThread.__init__: _running = False; "none" marks an object    *)
(* that does not exist yet.  `ev` lists the signals the run has emitted.   *)
NoThread == [st |-> "none", running |-> FALSE, mode |-> "demo", ev |-> <<>>]
AcquisitionThread(mode) ==
    [st |-> "idle", running |-> FALSE, mode |-> mode, ev |-> <<>>]
ExIdle == [pc |-> "idle", t |-> 0]

(* EEGWorker.__init__ *)
(* EEGWorker.__init__: no CSP, an unfitted StandardScaler, no classifier,  *)
(* model_ready False, the timer created but not started.  An object is     *)
(* tagged with the train_model call that installed or fitted it; run 0 is  *)
(* the state __init__ leaves (None, or the unfitted scaler).               *)
NoCSP == [run |-> 0, fitted |-> FALSE, nch |-> 0]
NoScaler == [run |-> 0]
NoClf == [run |-> 0, fitted |-> FALSE]
NoMlOp == [op |-> "none", emitted |-> FALSE, raised |-> FALSE, status |-> "",
           win |-> "", fail |-> "", failed |-> "", nl |-> 0, nr |-> 0,
           arg |-> FALSE, bw |-> 0]
MlInit ==
    /\ model_csp = NoCSP
    /\ scaler = NoScaler
    /\ model_clf = NoClf
    /\ model_ready = FALSE
    /\ predict_timer = FALSE
    /\ train_runs = <<>>
    /\ mlOp = NoMlOp

(* EEGWorker.__init__ in the session view: last_config = {}, no thread,    *)
(* srate 250, n_channels 8, no buffer, no log file.                        *)
NoConfig == [mode |-> "none", srate |-> 0, n_channels |-> 0]
NoSessThread ==
    [id |-> 0, ref |-> FALSE, pc |-> "none", running |-> FALSE, cfg |-> NoConfig,
     srate |-> 0, n_ch |-> 0, bufsize |-> 0, handle |-> "none",
     attempts |-> 0, hs |-> "none", reason |-> "", ev |-> <<>>,
     bad |-> 0, last |-> "", reads |-> 0, flag |-> FALSE]
RuntimeInit ==
    [srate |-> 250, n_channels |-> 8, buffer |-> [width |-> 0, maxlen |-> 0],
     header |-> 0, mode |-> "none", inited |-> 0,
     log |-> [open |-> FALSE, sid |-> 0, rows |-> <<>>],
     appended |-> <<>>, forwarded |-> <<>>]
SessInit ==
    /\ config = NoConfig
    /\ thread = NoSessThread
    /\ sigQ = <<>>
    /\ sig_connected = <<>>
    /\ runtime = RuntimeInit
    /\ stopper = [e \in Executors |-> "idle"]

NoCall == [fn |-> "none"]

(* TaskModule.__init__: no trial running, no timer, no loop in progress *)
TaskInit ==
    [running |-> FALSE, loop_left |-> 0, total_trials |-> 0, loop_switch |-> FALSE,
     timers |-> <<>>, trials |-> 0, stage_events |-> 0, last_stage |-> 0 - 1,
     cnt_total |-> 0, aborted |-> FALSE]

(* EEGWorker.__init__: csv_file = None, csv_writer = None; no handler and  *)
(* no stop_acquisition in progress                                         *)
LogInit ==
    [file |-> "none", csv_file |-> FALSE, csv_writer |-> FALSE, rows |-> 0,
     h |-> "idle", s |-> "idle", i |-> "idle", queued |-> 0, chunks |-> 0,
     sessions |-> 0, stops |-> 0, fault |-> "none", forwarded |-> 0,
     wrote_closed |-> FALSE]

AcqInit ==
    /\ task = TaskInit
    /\ logio = LogInit
    /\ acq_thread = 0
    /\ last_config = "none"
    /\ threads = [t \in ThreadIds |-> NoThread]
    /\ workerQ = <<>>
    /\ ex = [e \in Executors |-> ExIdle]
    /\ MlInit
    /\ SessInit

InitRB ==
    /\ \E c \in 1..MaxCap : rb = RingBuffer(c)
    /\ hist = <<>>
    /\ ret = [n |-> 0, res |-> None]
    /\ lastOp = NoOp
    /\ CalInit
    /\ FlowInit
    /\ AcqInit
    /\ call = NoCall

RBAppend(k) ==
    /\ Len(hist) + k <= MaxRows
    /\ rb' = append(rb, Rows(Len(hist), k))
    /\ hist' = hist \o Rows(Len(hist), k)
    /\ lastOp' = [op |-> "append", n |-> k, tag |-> ""]
    /\ UNCHANGED <<ret, calVars, flowVars, acqVars, extVars>>

RBGetLast(n) ==
    /\ ret' = [n |-> n, res |-> get_last(rb, n)]
    /\ lastOp' = [op |-> "get_last", n |-> n, tag |-> ""]
    /\ UNCHANGED <<rb, hist, calVars, flowVars, acqVars, extVars>>

NextRB ==
    \/ \E k \in 0..MaxChunk : RBAppend(k)
    \/ \E n \in 0..MaxN : RBGetLast(n)

SpecRB == InitRB /\ [][NextRB]_vars

----------------------------------------------------------------------------
(* C4: for a RingBuffer of capacity C, once C + k rows (k >= 0) have been  *)
(* appended in chunks of any sizes, get_last(C) returns exactly the C most *)
(* recently appended rows, oldest first.                                   *)
C4_LastCapacityRows ==
    (lastOp.op = "get_last" /\ ret.n = rb.maxlen /\ Len(hist) >= rb.maxlen)
        => ret.res = Array(LastRows(hist, rb.maxlen))

C4_Witness ==
    /\ lastOp.op = "get_last"
    /\ ret.n = rb.maxlen
    /\ rb.maxlen = 3
    /\ Len(hist) = 5
    /\ rb.idx = 2
    /\ ret.res = Array(<<3, 4, 5>>)

(* C5 as claimed: for every n, once at least n rows were written,          *)
(* get_last(n) returns exactly the n most recent rows, oldest first.       *)
C5_AnyN ==
    (lastOp.op = "get_last" /\ Len(hist) >= ret.n)
        => ret.res = Array(LastRows(hist, ret.n))

(* C5 amended: the same for every n up to the capacity.                    *)
C5_UpToCapacity ==
    (lastOp.op = "get_last" /\ Len(hist) >= ret.n /\ ret.n <= rb.maxlen)
        => ret.res = Array(LastRows(hist, ret.n))

(* a window that straddles the wrap boundary *)
C5_Witness ==
    /\ lastOp.op = "get_last"
    /\ rb.full
    /\ 0 < rb.idx
    /\ rb.idx < ret.n
    /\ ret.n < rb.maxlen
    /\ ret.res = Array(LastRows(hist, ret.n))

(* C6: get_last(n) is None whenever fewer than n rows were ever appended,  *)
(* also for n above the capacity and after the buffer has wrapped.         *)
C6_UnavailableBelowN ==
    (lastOp.op = "get_last" /\ Len(hist) < ret.n) => ret.res = None

(* C7: appending a chunk with more rows than the capacity leaves the       *)
(* chunk's last `capacity` rows in the store in order, the cursor at 0 and *)
(* the wrapped flag set, whatever the buffer held before.                  *)
C7_OversizedChunk ==
    (lastOp.op = "append" /\ lastOp.n > rb.maxlen)
        => /\ rb.buf = LastRows(hist, rb.maxlen)
           /\ rb.idx = 0
           /\ rb.full

(* an oversized chunk arriving at a buffer that already held rows *)
C7_Witness ==
    /\ lastOp.op = "append"
    /\ lastOp.n > rb.maxlen
    /\ rb.maxlen >= 2
    /\ Len(hist) > lastOp.n
    /\ rb.buf = LastRows(hist, rb.maxlen)

----------------------------------------------------------------------------
(* Calibration capture of EEGModule                                        *)

(* Bounds of the calibration specification *)
MaxNeeded == 2   \* largest trial count read from spin_count
MaxWin == 2      \* largest int(win_len * srate), in samples

Targets == {"left", "right"}

(* _start_capture: ignored while a capture is active; otherwise builds the *)
(* capture state and empties the target's TrialSet.  `count` is            *)
(* spin_count.value(), `sn` is int(spin_win.value() * worker.srate).       *)
start_capture_unguarded(cs, ts, target, count, sn) ==
    [cs |-> [active |-> TRUE, target |-> target, needed |-> count,
             collected |-> 0, samples_needed |-> sn, buffer |-> <<>>],
     ts |-> [ts EXCEPT ![target] = <<>>]]
start_capture(cs, ts, target, count, sn) ==
    IF cs # CaptureNone THEN [cs |-> cs, ts |-> ts]
    ELSE [cs |-> [active |-> TRUE, target |-> target, needed |-> count,
                  collected |-> 0, samples_needed |-> sn, buffer |-> <<>>],
          ts |-> [ts EXCEPT ![target] = <<>>]]

(* _process_capture_chunk, rows i.. of the chunk.  Each row joins the      *)
(* accumulation buffer; a buffer of samples_needed rows becomes one trial  *)
(* of the target's TrialSet.  The progress percentage divides by `needed`: *)
(* with needed = 0 that raises ZeroDivisionError, which leaves the handler *)
(* after the trial was stored and before _finish_capture.  Reaching        *)
(* `needed` trials runs _finish_capture and drops the rest of the chunk.   *)
RECURSIVE process_capture_chunk(_, _, _, _, _)
process_capture_chunk(cs, ts, done, chunk, i) ==
    IF i > Len(chunk) THEN [cs |-> cs, ts |-> ts, done |-> done]
    ELSE
        LET buffer == Append(cs.buffer, chunk[i])
        IN  IF Len(buffer) >= cs.samples_needed
            THEN LET ts2 == [ts EXCEPT ![cs.target] = Append(@, buffer)]
                     cs2 == [cs EXCEPT !.buffer = <<>>, !.collected = @ + 1]
                 IN  IF cs2.needed = 0
                     THEN [cs |-> cs2, ts |-> ts2, done |-> done]
                     ELSE IF cs2.collected >= cs2.needed
                     THEN [cs |-> CaptureNone, ts |-> ts2, done |-> cs2]
                     ELSE process_capture_chunk(cs2, ts2, done, chunk, i + 1)
            ELSE process_capture_chunk([cs EXCEPT !.buffer = buffer], ts, done,
                                       chunk, i + 1)

CalIdleRB ==
    /\ rb = RingBuffer(0)
    /\ ret = [n |-> 0, res |-> None]

InitCal ==
    /\ CalIdleRB
    /\ hist = <<>>
    /\ lastOp = NoOp
    /\ CalInit
    /\ FlowInit
    /\ AcqInit
    /\ call = NoCall

(* a click on btn_cap_left / btn_cap_right *)
StartCapture(target, count, sn) ==
    /\ LET r == start_capture(capture_state, train_samples, target, count, sn)
       IN  /\ capture_state' = r.cs
           /\ train_samples' = r.ts
    /\ lastOp' = [op |-> "start_capture", n |-> count, tag |-> target]
    /\ UNCHANGED <<rb, hist, ret, capture_done, flowVars, acqVars, extVars>>

(* _on_worker_samples: a chunk of k rows forwarded by the worker *)
OnWorkerSamples(k) ==
    /\ Len(hist) + k <= MaxRows
    /\ hist' = hist \o Rows(Len(hist), k)
    /\ IF capture_state # CaptureNone
       THEN LET r == process_capture_chunk(capture_state, train_samples,
                                           capture_done, Rows(Len(hist), k), 1)
            IN  /\ capture_state' = r.cs
                /\ train_samples' = r.ts
                /\ capture_done' = r.done
       ELSE UNCHANGED calVars
    /\ lastOp' = [op |-> "samples", n |-> k, tag |-> ""]
    /\ UNCHANGED <<rb, ret, flowVars, acqVars, extVars>>

NextCal ==
    \/ \E t \in Targets, c \in 0..MaxNeeded, sn \in 0..MaxWin : StartCapture(t, c, sn)
    \/ \E k \in 1..MaxChunk : OnWorkerSamples(k)

SpecCal == InitCal /\ [][NextCal]_vars

(* C9: a capture started with needed = N is back in Idle exactly when N    *)
(* windows have been sliced, and the target's TrialSet then has length N,  *)
(* for every needed count spin_count can supply and every chunking: once a *)
(* window has been sliced the capture is still active only if fewer than N *)
(* were sliced, and a finished capture sliced N and left N trials.         *)
C9_IdleExactlyAtNeeded ==
    /\ (capture_state # CaptureNone /\ capture_state.collected >= 1)
          => capture_state.collected < capture_state.needed
    /\ (capture_state = CaptureNone /\ capture_done # CaptureNone)
          => /\ capture_done.collected = capture_done.needed
             /\ Len(train_samples[capture_done.target]) = capture_done.needed

(* C10: a begin-capture request made while a capture is active changes     *)
(* neither the capture state (target, needed, collected, buffer) nor       *)
(* either TrialSet.                                                        *)
C10_CaptureExclusive ==
    [][(lastOp'.op = "start_capture" /\ capture_state # CaptureNone)
          => (capture_state' = capture_state /\ train_samples' = train_samples)]_vars

(* a request for the other class ignored in the middle of a capture *)
C10_Witness ==
    /\ lastOp.op = "start_capture"
    /\ capture_state # CaptureNone
    /\ lastOp.tag # capture_state.target
    /\ lastOp.n # capture_state.needed
    /\ capture_state.collected = 1
    /\ Len(capture_state.buffer) = 1
    /\ Len(train_samples[capture_state.target]) = 1
    /\ Len(train_samples[lastOp.tag]) = 2

----------------------------------------------------------------------------
(* The two flows that share the RingBuffer.  _on_data_received runs in the *)
(* worker's thread (queued from the acquisition thread), _perform_         *)
(* prediction runs from predict_timer; neither takes a lock, so the        *)
(* statements of append and the attribute reads of get_last interleave.    *)

MaxFlowRows == 5   \* rows received over one behaviour of the two flows

(* append(samples), one statement at a time.  The result is the buffer and *)
(* the next position; "ret" is the return from append.                     *)
append_step(b, w) ==
    LET samples == w.chunk
        n == Len(samples)
        remain == b.maxlen - b.idx
        overflow == n - remain
        at(pc, b2) == [b |-> b2, pc |-> pc]
    IN  CASE w.pc = "enter" ->
                 IF n = 0 THEN at("ret", b)
                 ELSE IF n > b.maxlen THEN at("big_buf", b)
                 ELSE IF n <= remain THEN at("fit_buf", b)
                 ELSE at("wrap_buf1", b)
          [] w.pc = "big_buf" ->
                 at("big_idx", [b EXCEPT !.buf = PySliceFrom(samples, 0 - b.maxlen)])
          [] w.pc = "big_idx" -> at("big_full", [b EXCEPT !.idx = 0])
          [] w.pc = "big_full" -> at("ret", [b EXCEPT !.full = TRUE])
          [] w.pc = "fit_buf" ->
                 at("fit_idx", [b EXCEPT !.buf = AssignRows(b.buf, b.idx, samples)])
          [] w.pc = "fit_idx" -> at("test", [b EXCEPT !.idx = b.idx + n])
          [] w.pc = "wrap_buf1" ->
                 at("wrap_buf2",
                    [b EXCEPT !.buf = AssignRows(b.buf, b.idx, PySliceTo(samples, remain))])
          [] w.pc = "wrap_buf2" ->
                 at("wrap_idx",
                    [b EXCEPT !.buf = AssignRows(b.buf, 0, PySliceFrom(samples, remain))])
          [] w.pc = "wrap_idx" -> at("wrap_full", [b EXCEPT !.idx = overflow])
          [] w.pc = "wrap_full" -> at("test", [b EXCEPT !.full = TRUE])
          [] w.pc = "test" ->
                 IF b.idx >= b.maxlen THEN at("test_idx", b) ELSE at("ret", b)
          [] w.pc = "test_idx" -> at("test_full", [b EXCEPT !.idx = 0])
          [] w.pc = "test_full" -> at("ret", [b EXCEPT !.full = TRUE])

(* get_last(n), one attribute read at a time.  `a` and `b` are the slice   *)
(* bounds computed so far; "ret" carries the returned value in `res`.      *)
get_last_step(b, r) ==
    LET n == r.n
        at(pc) == [pc |-> pc, a |-> r.a, b |-> r.b, res |-> None]
    IN  CASE r.pc = "not_full" -> IF b.full THEN at("idx_ge") ELSE at("idx_lt")
          [] r.pc = "idx_lt" -> IF b.idx < n THEN at("ret") ELSE at("idx_ge")
          [] r.pc = "idx_ge" -> IF b.idx >= n THEN at("lo") ELSE at("part1")
          [] r.pc = "lo" -> [pc |-> "hi", a |-> b.idx - n, b |-> r.b, res |-> None]
          [] r.pc = "hi" -> [pc |-> "copy", a |-> r.a, b |-> b.idx, res |-> None]
          [] r.pc = "copy" ->
                 [pc |-> "ret", a |-> r.a, b |-> r.b,
                  res |-> Array(PySlice(b.buf, r.a, r.b))]
          [] r.pc = "part1" ->
                 [pc |-> "part2", a |-> b.idx - n + b.maxlen, b |-> r.b, res |-> None]
          [] r.pc = "part2" -> [pc |-> "vstack", a |-> r.a, b |-> b.idx, res |-> None]
          [] r.pc = "vstack" ->
                 [pc |-> "ret", a |-> r.a, b |-> r.b,
                  res |-> Array(PySliceFrom(b.buf, r.a) \o PySliceTo(b.buf, r.b))]

(* a connected session: the buffer of _init_runtime_resources, and the     *)
(* window length n_samples of _perform_prediction, at most the capacity    *)
InitFlows ==
    /\ \E c \in 1..MaxCap : \E n \in 1..c :
          /\ rb = RingBuffer(c)
          /\ rd = [ReaderIdle EXCEPT !.n = n]
    /\ wr = WriterIdle
    /\ hist = <<>>
    /\ ret = [n |-> 0, res |-> None]
    /\ lastOp = NoOp
    /\ CalInit
    /\ AcqInit
    /\ call = NoCall

(* _on_data_received(chunk): a non-empty chunk reaches buffer.append.      *)
(* rd.seen collects the lengths the stream of whole chunks has while a     *)
(* get_last is in progress, the chunk being appended counted both ways.    *)
OnDataReceived(k) ==
    /\ wr.pc = "idle"
    /\ Len(hist) + k <= MaxFlowRows
    /\ wr' = [pc |-> "enter", chunk |-> Rows(Len(hist), k)]
    /\ rd' = IF rd.pc = "idle" THEN rd
             ELSE [rd EXCEPT !.seen = @ \cup {Len(hist) + k}]
    /\ UNCHANGED <<rb, hist, ret, lastOp, calVars, acqVars, extVars>>

(* the next statement of append; at its return the chunk is part of the    *)
(* completed appends                                                       *)
AppendStep ==
    /\ wr.pc # "idle"
    /\ LET r == append_step(rb, wr)
       IN  /\ rb' = r.b
           /\ IF r.pc = "ret"
              THEN /\ wr' = WriterIdle
                   /\ hist' = hist \o wr.chunk
              ELSE /\ wr' = [wr EXCEPT !.pc = r.pc]
                   /\ UNCHANGED hist
    /\ UNCHANGED <<ret, lastOp, calVars, rd, acqVars, extVars>>

(* a tick of predict_timer: _perform_prediction calls get_last(n_samples)  *)
PerformPrediction ==
    /\ rd.pc = "idle"
    /\ rd' = [rd EXCEPT !.pc = "not_full", !.a = 0, !.b = 0,
                        !.seen = {Len(hist), Len(hist) + Len(wr.chunk)}]
    /\ UNCHANGED <<rb, hist, ret, lastOp, calVars, wr, acqVars, extVars>>

GetLastStep ==
    /\ rd.pc # "idle"
    /\ LET r == get_last_step(rb, rd)
       IN  IF r.pc = "ret"
           THEN /\ rd' = [rd EXCEPT !.pc = "idle", !.a = r.a, !.b = r.b]
                /\ ret' = [n |-> rd.n, res |-> r.res]
                /\ lastOp' = [op |-> "get_last", n |-> rd.n, tag |-> "timer"]
           ELSE /\ rd' = [rd EXCEPT !.pc = r.pc, !.a = r.a, !.b = r.b]
                /\ UNCHANGED <<ret, lastOp>>
    /\ UNCHANGED <<rb, hist, calVars, wr, acqVars, extVars>>

NextFlows ==
    \/ \E k \in 1..MaxChunk : OnDataReceived(k)
    \/ AppendStep
    \/ PerformPrediction
    \/ GetLastStep

SpecFlows == InitFlows /\ [][NextFlows]_vars

(* C8: a window returned by get_last to the prediction flow is the last n  *)
(* rows of a sequence of whole appends, as it stood at some moment between *)
(* the call and the return (an append in progress may count as applied or  *)
(* as not applied, never as half applied).  The rows of the stream are     *)
(* 1, 2, 3, ..., so the last n rows of its first L rows are Rows(L-n, n).  *)
C8_NoTornRead ==
    (lastOp.op = "get_last" /\ ret.res.ok)
        => \E L \in rd.seen :
              /\ L >= ret.n
              /\ ret.res.rows = Rows(L - ret.n, ret.n)

(* the statement-wise append and get_last agree with the whole calls when  *)
(* they do not overlap                                                     *)
FlowsSequentiallyCorrect ==
    (wr.pc = "idle" /\ Len(hist) >= rd.n)
        => (get_last(rb, rd.n) = Array(LastRows(hist, rd.n))
            /\ hist = Rows(0, Len(hist)))

----------------------------------------------------------------------------
(* Acquisition sessions: EEGWorker.start_acquisition / stop_acquisition,   *)
(* AcquisitionThread.run and the worker's signal handlers.                 *)
(*                                                                         *)
(* EEGModule calls start_acquisition and stop_acquisition directly, so     *)
(* they run in the GUI thread.  The worker object lives in worker_thread   *)
(* (moveToThread), so the signals an AcquisitionThread emits from run()    *)
(* are queued and their handlers run in the worker's thread, in emission   *)
(* order.  A stop_acquisition therefore runs in either thread, and is      *)
(* modelled statement by statement; start_acquisition is one step.         *)

(* QThread.isRunning: from start() until run() has returned *)
isRunning(th) == th.st \in {"idle", "connecting", "streaming", "raising"}

Signal(sig, ok, t) == [sig |-> sig, ok |-> ok, t |-> t]

(* run(), first statement: self._running = True *)
run_enter(th) == [th EXCEPT !.running = TRUE, !.st = "connecting"]

(* run(), stage 1 succeeded: connection_result.emit(True, ...) *)
connect_ok(th) == [th EXCEPT !.st = "streaming", !.ev = Append(@, "ok")]

(* run(), stage 1 raised: connection_result.emit(False, ...),              *)
(* self._running = False, handles closed, return                           *)
connect_failed_no_return(th) ==
    [th EXCEPT !.st = "streaming", !.ev = Append(@, "fail")]
connect_failed(th) ==
    [th EXCEPT !.st = "failed", !.running = FALSE, !.ev = Append(@, "fail")]

(* the modes whose stage 1 can raise, whose loop can produce a chunk, and  *)
(* whose read can raise in the loop ('bluetooth' has no branch in the      *)
(* loop, 'demo' opens nothing)                                             *)
CanFailConnect(mode) == mode \in {"serial", "bluetooth", "tcp"}
CanProduce(mode) == mode \in {"demo", "serial", "tcp"}
CanRaise(mode) == mode \in {"serial", "tcp"}

DataCount(th) == Cardinality({i \in 1..Len(th.ev) : th.ev[i] = "data"})

(* thread t starts executing run() *)
ThreadRunEnter(t) ==
    /\ threads[t].st = "idle"
    /\ threads' = [threads EXCEPT ![t] = run_enter(@)]
    /\ UNCHANGED <<acq_thread, last_config, workerQ, ex, restVars>>

(* stage 1 of run(): the connection (and the TCP handshake) succeeds or    *)
(* raises; the outcome is emitted once                                     *)
ThreadConnect(t, ok) ==
    /\ threads[t].st = "connecting"
    /\ ok \/ CanFailConnect(threads[t].mode)
    /\ threads' = [threads EXCEPT ![t] = IF ok THEN connect_ok(@) ELSE connect_failed(@)]
    /\ workerQ' = Append(workerQ, Signal("connection_result", ok, t))
    /\ UNCHANGED <<acq_thread, last_config, ex, restVars>>

(* `while self._running` finds the flag cleared: the loop ends, the        *)
(* finally block closes the handles, run() returns                         *)
ThreadLoopExit(t) ==
    /\ threads[t].st = "streaming"
    /\ ~threads[t].running
    /\ threads' = [threads EXCEPT ![t].st = "stopped"]
    /\ UNCHANGED <<acq_thread, last_config, workerQ, ex, restVars>>

(* one iteration that produced a chunk: data_ready.emit(chunk).  An        *)
(* iteration without a chunk (nothing waiting, select timeout, dropped     *)
(* frame, bluetooth) changes nothing and is a stuttering step.  The        *)
(* thread's `ev` records its first MaxData chunks; the loop goes on        *)
(* emitting for as long as it runs, held back in the model only while      *)
(* MaxQueue signals are waiting for the worker.                            *)
ThreadData(t) ==
    /\ threads[t].st = "streaming"
    /\ threads[t].running
    /\ CanProduce(threads[t].mode)
    /\ Len(workerQ) < MaxQueue
    /\ threads' = [threads EXCEPT ![t].ev =
                      IF DataCount(threads[t]) < MaxData THEN Append(@, "data") ELSE @]
    /\ workerQ' = Append(workerQ, Signal("data_ready", TRUE, t))
    /\ UNCHANGED <<acq_thread, last_config, ex, restVars>>

(* one iteration whose read raised (peer closed, read error) *)
ThreadRaise(t) ==
    /\ threads[t].st = "streaming"
    /\ threads[t].running
    /\ CanRaise(threads[t].mode)
    /\ threads' = [threads EXCEPT ![t].st = "raising"]
    /\ UNCHANGED <<acq_thread, last_config, workerQ, ex, restVars>>

(* the except clause of the loop: error_occurred is emitted only if        *)
(* _running is still set; then finally, and run() returns                  *)
ThreadExcept(t) ==
    /\ threads[t].st = "raising"
    /\ IF threads[t].running
       THEN /\ threads' = [threads EXCEPT ![t].st = "failed", ![t].ev = Append(@, "err")]
            /\ workerQ' = Append(workerQ, Signal("error_occurred", FALSE, t))
       ELSE /\ threads' = [threads EXCEPT ![t].st = "stopped"]
            /\ UNCHANGED workerQ
    /\ UNCHANGED <<acq_thread, last_config, ex, restVars>>

ThreadStep(t) ==
    \/ ThreadRunEnter(t)
    \/ \E ok \in BOOLEAN : ThreadConnect(t, ok)
    \/ ThreadLoopExit(t)
    \/ ThreadData(t)
    \/ ThreadRaise(t)
    \/ ThreadExcept(t)

(* start_acquisition(config), called from the GUI thread: returns at once  *)
(* if self.acq_thread is set and running; otherwise records the config,    *)
(* creates the thread object, connects its signals and starts it.          *)
start_acquisition_unguarded(cur, ths, mode, new) ==
    [started |-> TRUE,
     acq_thread |-> new,
     threads |-> [ths EXCEPT ![new] = AcquisitionThread(mode)]]
start_acquisition(cur, ths, mode, new) ==
    IF cur # 0 /\ isRunning(ths[cur])
    THEN [started |-> FALSE, acq_thread |-> cur, threads |-> ths]
    ELSE [started |-> TRUE,
          acq_thread |-> new,
          threads |-> [ths EXCEPT ![new] = AcquisitionThread(mode)]]

StartAcquisition(mode) ==
    /\ ex["gui"].pc = "idle"
    /\ \E new \in ThreadIds :
          /\ threads[new].st = "none"
          /\ \A u \in ThreadIds : u < new => threads[u].st # "none"
          /\ LET r == start_acquisition(acq_thread, threads, mode, new)
             IN  /\ acq_thread' = r.acq_thread
                 /\ threads' = r.threads
                 /\ last_config' = IF r.started THEN mode ELSE last_config
    /\ UNCHANGED <<workerQ, ex, restVars>>

(* stop_acquisition entered: `if self.acq_thread:` *)
stop_enter(cur) == IF cur # 0 THEN "stop_flag" ELSE "stop_tail"

(* stop_acquisition called from the GUI thread (disconnect, closeEvent) *)
StopAcquisition ==
    /\ ex["gui"].pc = "idle"
    /\ ex' = [ex EXCEPT !["gui"].pc = stop_enter(acq_thread)]
    /\ UNCHANGED <<acq_thread, last_config, threads, workerQ, restVars>>

(* the worker's thread takes the next queued signal and runs its handler:  *)
(* _on_thread_connection_result(False) and _on_acq_error go on into        *)
(* stop_acquisition, _on_thread_connection_result(True) and                *)
(* _on_data_received run to their end                                      *)
WorkerDispatch ==
    /\ ex["worker"].pc = "idle"
    /\ workerQ # <<>>
    /\ workerQ' = Tail(workerQ)
    /\ LET s == Head(workerQ)
       IN  IF (s.sig = "connection_result" /\ ~s.ok) \/ s.sig = "error_occurred"
           THEN ex' = [ex EXCEPT !["worker"].pc = stop_enter(acq_thread)]
           ELSE UNCHANGED ex
    /\ UNCHANGED <<acq_thread, last_config, threads, restVars>>

(* the body of stop_acquisition in executor e, one statement per step.     *)
(* self.acq_thread is read again by every statement; when the other        *)
(* executor has set it to None meanwhile the statement raises              *)
(* AttributeError and the call is abandoned.                               *)
StopStep(e) ==
    LET pc == ex[e].pc
        goto(l) == ex' = [ex EXCEPT ![e].pc = l]
    IN  /\ pc # "idle"
        /\ CASE pc = "stop_flag" ->       \* self.acq_thread._running = False
                  /\ IF acq_thread = 0
                     THEN /\ ex' = [ex EXCEPT ![e] = ExIdle]
                          /\ UNCHANGED threads
                     ELSE /\ threads' = [threads EXCEPT ![acq_thread].running = FALSE]
                          /\ goto("stop_quit")
                  /\ UNCHANGED acq_thread
             [] pc = "stop_quit" ->       \* self.acq_thread.quit(); .wait() is called
                  /\ IF acq_thread = 0
                     THEN ex' = [ex EXCEPT ![e] = ExIdle]
                     ELSE ex' = [ex EXCEPT ![e] = [pc |-> "stop_wait", t |-> acq_thread]]
                  /\ UNCHANGED <<acq_thread, threads>>
             [] pc = "stop_wait" ->       \* wait() returns once run() has returned
                  /\ ~isRunning(threads[ex[e].t])
                  /\ goto("stop_clear")
                  /\ UNCHANGED <<acq_thread, threads>>
             [] pc = "stop_clear" ->      \* self.acq_thread = None
                  /\ acq_thread' = 0
                  /\ goto("stop_tail")
                  /\ UNCHANGED threads
             [] pc = "stop_tail" ->       \* log closed, timer stopped, sig_connected(False)
                  /\ ex' = [ex EXCEPT ![e] = ExIdle]
                  /\ UNCHANGED <<acq_thread, threads>>
        /\ UNCHANGED <<last_config, workerQ, restVars>>

InitAcq ==
    /\ AcqInit
    /\ call = NoCall
    /\ CalIdleRB
    /\ hist = <<>>
    /\ lastOp = NoOp
    /\ CalInit
    /\ FlowInit

Next ==
    \/ \E m \in Modes : StartAcquisition(m)
    \/ StopAcquisition
    \/ WorkerDispatch
    \/ \E e \in Executors : StopStep(e)
    \/ \E t \in ThreadIds : ThreadRunEnter(t)
    \/ \E t \in ThreadIds, ok \in BOOLEAN : ThreadConnect(t, ok)
    \/ \E t \in ThreadIds : ThreadLoopExit(t)
    \/ \E t \in ThreadIds : ThreadData(t)
    \/ \E t \in ThreadIds : ThreadRaise(t)
    \/ \E t \in ThreadIds : ThreadExcept(t)

Spec == InitAcq /\ [][Next]_vars

(* The scheduler: every started thread keeps executing run(), the worker's *)
(* event loop keeps delivering queued signals, and a thread inside         *)
(* stop_acquisition keeps executing it (its wait() returns once the        *)
(* awaited run() has returned).  Nothing obliges the caller to issue       *)
(* further start or stop requests.                                         *)
FairSpec ==
    /\ Spec
    /\ \A t \in ThreadIds : WF_vars(ThreadStep(t))
    /\ \A e \in Executors : WF_vars(StopStep(e))
    /\ WF_vars(WorkerDispatch)

Running == {t \in ThreadIds : isRunning(threads[t])}

(* C1: at most one acquisition thread is running at any time. *)
C1_AtMostOneRunning == Cardinality(Running) <= 1


(* C2: every run emits exactly one connection_result, before any           *)
(* data_ready; data_ready follows only connection_result(True); and a run  *)
(* moves Idle -> Connecting -> Streaming -> Stopped or Failed, or          *)
(* Connecting -> Failed, and in no other way.                              *)
ConnResults(th) == {i \in 1..Len(th.ev) : th.ev[i] \in {"ok", "fail"}}

RunEmitsInOrder(th) ==
    /\ Cardinality(ConnResults(th)) =
          (IF th.st \in {"none", "idle", "connecting"} THEN 0 ELSE 1)
    /\ th.ev # <<>> => th.ev[1] \in {"ok", "fail"}
    /\ \A i \in 1..Len(th.ev) : th.ev[i] = "data" => th.ev[1] = "ok"
    /\ (th.ev # <<>> /\ th.ev[1] = "fail") => (th.ev = <<"fail">> /\ th.st = "failed")

(* the phase of the session state machine a thread is in *)
Phase(th) ==
    CASE th.st \in {"none", "idle"} -> "Idle"
      [] th.st = "connecting" -> "Connecting"
      [] th.st \in {"streaming", "raising"} -> "Streaming"
      [] th.st = "stopped" -> "Stopped"
      [] th.st = "failed" -> "Failed"

PhaseOrder ==
    {<<"Idle", "Connecting">>, <<"Connecting", "Streaming">>,
     <<"Connecting", "Failed">>, <<"Streaming", "Stopped">>,
     <<"Streaming", "Failed">>}

C2_RunProtocol ==
    /\ [](\A t \in ThreadIds : RunEmitsInOrder(threads[t]))
    /\ [][\A t \in ThreadIds :
             \/ Phase(threads'[t]) = Phase(threads[t])
             \/ <<Phase(threads[t]), Phase(threads'[t])>> \in PhaseOrder]_vars

(* a run that connected, emitted a chunk and was stopped, next to one that *)
(* failed to connect                                                       *)
C2_Witness ==
    \E t, u \in ThreadIds :
       /\ threads[t].ev = <<"ok", "data">>
       /\ threads[t].st = "stopped"
       /\ threads[u].ev = <<"fail">>
       /\ threads[u].st = "failed"

(* C3: after stop_acquisition has cleared the running flag the thread      *)
(* observes it, leaves its loop and terminates, so that the wait returns,  *)
(* in every interleaving of the stop with the thread's own steps: while a  *)
(* stop_acquisition waits for a thread that is in its loop, that thread's  *)
(* running flag is cleared, so that its next loop test ends the run.       *)
C3_StopObserved ==
    \A e \in Executors :
       (ex[e].pc = "stop_wait" /\ threads[ex[e].t].st = "streaming")
          => ~threads[ex[e].t].running

(* the same as a progress property of the fair specification: a wait       *)
(* entered by the caller's stop_acquisition returns                        *)
StopJoinsEventually ==
    (ex["gui"].pc = "stop_wait") ~> (ex["gui"].pc # "stop_wait")

----------------------------------------------------------------------------
(* Training and online prediction: EEGWorker.train_model,                  *)
(* toggle_prediction and _perform_prediction.  EEGModule calls train_model *)
(* and toggle_prediction directly and predict_timer lives in the thread    *)
(* that constructed the worker, so the three run one at a time.            *)

(* Bounds of the model specification *)
MaxTrain == 3    \* train_model calls over one behaviour
MaxTrials == 3   \* largest number of trials in one TrialSet

Widths == {8, 9}       \* channel counts of a trial or of the buffer (9: tcp)
TrainFailures == {"none", "stack", "csp_fit", "scaler_fit", "clf_fit"}
TickWindows == {"no_buffer", "unavailable", "ok"}
TickFailures == {"none", "notch", "butter", "csp", "scaler", "clf"}

Model == [csp |-> model_csp, scaler |-> scaler, clf |-> model_clf,
          ready |-> model_ready]

(* train_model(X_left, X_right) as call number r on trials of width w.     *)
(* fail names the statement of the try block that raises for this data     *)
(* (np.stack/np.concatenate on unequal windows, CSP.fit's eigh,            *)
(* scaler.fit, clf.fit); left is what a scaler.fit that raised leaves of   *)
(* the scaler.  Every exception is caught by the except clause.            *)
train_model_unguarded(m, nl, nr, w, fail, left, r) ==
    IF fail = "stack"
    THEN [m |-> m, status |-> "failed", raised |-> FALSE]
    ELSE [m |-> [m EXCEPT !.csp = [run |-> r, fitted |-> FALSE, nch |-> w]],
          status |-> "failed", raised |-> FALSE]

train_model(m, nl, nr, w, fail, left, r) ==
    IF nl < 2 \/ nr < 2
    THEN [m |-> m, status |-> "insufficient", raised |-> FALSE]
    ELSE IF fail = "stack"
    THEN [m |-> m, status |-> "failed", raised |-> FALSE]
    ELSE LET m1 == [m EXCEPT !.csp = [run |-> r, fitted |-> FALSE, nch |-> w]]
             m2 == [m1 EXCEPT !.csp.fitted = TRUE]
             m3 == [m2 EXCEPT !.scaler = [run |-> r]]
             m4 == [m3 EXCEPT !.clf = [run |-> r, fitted |-> FALSE]]
             m5 == [m4 EXCEPT !.clf.fitted = TRUE, !.ready = TRUE]
         IN  CASE fail = "csp_fit" ->
                    [m |-> m1, status |-> "failed", raised |-> FALSE]
               [] fail = "scaler_fit" ->
                    [m |-> [m2 EXCEPT !.scaler = left],
                     status |-> "failed", raised |-> FALSE]
               [] fail = "clf_fit" ->
                    [m |-> m4, status |-> "failed", raised |-> FALSE]
               [] OTHER ->
                    [m |-> m5, status |-> "trained", raised |-> FALSE]

(* toggle_prediction(running): the new isActive() of predict_timer *)
toggle_prediction_unguarded(timer, ready, running) == running

toggle_prediction(timer, ready, running) ==
    IF running
    THEN IF ~ready THEN timer ELSE TRUE
    ELSE FALSE

(* One timeout of predict_timer.  win is what self.buffer and get_last     *)
(* give, bw the width of the buffer, fail the step that fails on this      *)
(* window.  dsp.notch_filter and dsp.butter_filter catch their own         *)
(* failure and return the data unfiltered; the CSP, scaler and classifier  *)
(* calls sit inside the try block, whose except clause passes.             *)
TickWidth(bw) == Min(bw, 8)
CspRaises(m, bw, fail) ==
    m.csp.run = 0 \/ ~m.csp.fitted \/ m.csp.nch # TickWidth(bw) \/ fail = "csp"
ScalerRaises(m, fail) == m.scaler.run = 0 \/ fail = "scaler"
ClfRaises(m, fail) == m.clf.run = 0 \/ ~m.clf.fitted \/ fail = "clf"

perform_prediction_uncaught(m, win, bw, fail) ==
    IF win # "ok"
    THEN [failed |-> win, emitted |-> FALSE, raised |-> FALSE]
    ELSE IF CspRaises(m, bw, fail) \/ ScalerRaises(m, fail) \/ ClfRaises(m, fail)
    THEN [failed |-> "pipeline", emitted |-> FALSE, raised |-> TRUE]
    ELSE [failed |-> "none", emitted |-> TRUE, raised |-> FALSE]

perform_prediction(m, win, bw, fail) ==
    IF win = "no_buffer"
    THEN [failed |-> "no_buffer", emitted |-> FALSE, raised |-> FALSE]
    ELSE IF win = "unavailable"
    THEN [failed |-> "unavailable", emitted |-> FALSE, raised |-> FALSE]
    ELSE LET filt == IF fail \in {"notch", "butter"} THEN fail ELSE "none"
         IN  CASE CspRaises(m, bw, fail) ->
                    [failed |-> "csp", emitted |-> FALSE, raised |-> FALSE]
               [] ~CspRaises(m, bw, fail) /\ ScalerRaises(m, fail) ->
                    [failed |-> "scaler", emitted |-> FALSE, raised |-> FALSE]
               [] ~CspRaises(m, bw, fail) /\ ~ScalerRaises(m, fail)
                    /\ ClfRaises(m, fail) ->
                    [failed |-> "clf", emitted |-> FALSE, raised |-> FALSE]
               [] OTHER ->
                    [failed |-> filt, emitted |-> TRUE, raised |-> FALSE]

TrainModel(nl, nr, w, fail) ==
    /\ Len(train_runs) < MaxTrain
    /\ \E left \in {scaler, NoScaler} :
       LET res == train_model(Model, nl, nr, w, fail, left, Len(train_runs) + 1)
       IN  /\ model_csp' = res.m.csp
           /\ scaler' = res.m.scaler
           /\ model_clf' = res.m.clf
           /\ model_ready' = res.m.ready
           /\ train_runs' = Append(train_runs, res.status)
           /\ mlOp' = [NoMlOp EXCEPT !.op = "train_model", !.status = res.status,
                                     !.raised = res.raised, !.fail = fail,
                                     !.nl = nl, !.nr = nr]
    /\ UNCHANGED <<predict_timer, sessVars, pureVars, acqVars, rbVars, lastOp, calVars,
                   flowVars>>

TogglePrediction(running) ==
    /\ predict_timer' = toggle_prediction(predict_timer, model_ready, running)
    /\ mlOp' = [NoMlOp EXCEPT !.op = "toggle_prediction", !.arg = running]
    /\ UNCHANGED <<model_csp, scaler, model_clf, model_ready, train_runs,
                   sessVars, pureVars, acqVars, rbVars, lastOp, calVars, flowVars>>

(* stop_acquisition's predict_timer.stop() *)
StopTimer ==
    /\ predict_timer' = FALSE
    /\ mlOp' = [NoMlOp EXCEPT !.op = "stop_acquisition"]
    /\ UNCHANGED <<model_csp, scaler, model_clf, model_ready, train_runs,
                   sessVars, pureVars, acqVars, rbVars, lastOp, calVars, flowVars>>

PredictionTick(win, bw, fail) ==
    /\ predict_timer
    /\ LET res == perform_prediction(Model, win, bw, fail)
       IN  mlOp' = [NoMlOp EXCEPT !.op = "tick", !.emitted = res.emitted,
                                  !.raised = res.raised, !.failed = res.failed,
                                  !.win = win, !.fail = fail, !.bw = bw]
    /\ UNCHANGED <<model_csp, scaler, model_clf, model_ready, predict_timer,
                   train_runs, sessVars, pureVars, acqVars, rbVars, lastOp, calVars,
                   flowVars>>

NextModel ==
    \/ \E nl \in 0..MaxTrials, nr \in 0..MaxTrials, w \in Widths,
          fail \in TrainFailures : TrainModel(nl, nr, w, fail)
    \/ \E running \in BOOLEAN : TogglePrediction(running)
    \/ StopTimer
    \/ \E win \in TickWindows, bw \in Widths, fail \in TickFailures :
             PredictionTick(win, bw, fail)

SpecModel == InitAcq /\ [][NextModel]_vars

(* the three objects were installed and fitted by the successful run r *)
Consistent(r) ==
    /\ r \in 1..Len(train_runs)
    /\ train_runs[r] = "trained"
    /\ model_csp.run = r /\ model_csp.fitted
    /\ scaler.run = r
    /\ model_clf.run = r /\ model_clf.fitted

Refused(op) == op.op = "train_model" /\ (op.nl < 2 \/ op.nr < 2)

(* C11: a train_model call with fewer than 2 trials in either class ends   *)
(* with the "insufficient samples" status, raises nothing and leaves the   *)
(* CSP, the scaler, the classifier, model_ready and the timer as they      *)
(* were.                                                                   *)
C11_RefusalChangesNothing ==
    [][Refused(mlOp')
         => /\ mlOp'.status = "insufficient"
            /\ ~mlOp'.raised
            /\ UNCHANGED <<model_csp, scaler, model_clf, model_ready,
                           predict_timer>>]_vars

(* a refused call made while a trained model is installed *)
C11_Witness ==
    /\ Refused(mlOp)
    /\ model_ready
    /\ \E r \in 1..Len(train_runs) : Consistent(r)

(* C12: whenever model_ready is true the CSP, the scaler and the           *)
(* classifier are the fitted objects of one and the same successful        *)
(* train_model call.                                                       *)
C12_AtomicRetrain ==
    model_ready => \E r \in 1..Len(train_runs) : Consistent(r)

(* C13: the timer is active only if model_ready is true, a                 *)
(* toggle_prediction(True) without a trained model leaves the timer        *)
(* stopped, and a prediction is emitted only by a tick of the active       *)
(* timer.                                                                  *)
C13_SchedulerGated ==
    /\ [](predict_timer => model_ready)
    /\ [][/\ (mlOp'.op = "toggle_prediction" /\ mlOp'.arg /\ ~model_ready)
                => ~predict_timer'
          /\ mlOp'.emitted => (mlOp'.op = "tick" /\ predict_timer)]_vars

(* toggle_prediction(True) was refused for want of a model *)
C13_Witness ==
    /\ mlOp.op = "toggle_prediction" /\ mlOp.arg
    /\ ~model_ready /\ ~predict_timer
    /\ Len(train_runs) >= 1

(* a tick whose pipeline failed at some step, the filters included *)
TickFailedAnywhere(op) ==
    op.op = "tick" /\ (op.win # "ok" \/ op.fail # "none" \/ op.failed # "none")

(* C14 as stated: a tick that fails anywhere in its pipeline, a filter     *)
(* failure included, emits no prediction, raises nothing and leaves the    *)
(* timer and the model as they were.                                       *)
C14_AnyFailureSkips ==
    [][TickFailedAnywhere(mlOp')
         => /\ ~mlOp'.emitted /\ ~mlOp'.raised
            /\ UNCHANGED <<model_csp, scaler, model_clf, model_ready,
                           predict_timer>>]_vars

(* C14 amended: a tick whose window is unavailable or whose CSP, scaler or *)
(* classifier step fails emits no prediction, raises nothing and leaves    *)
(* the timer running and the model as it was; no tick raises; a failure    *)
(* inside a filter does not fail the tick (the window goes on unfiltered). *)
C14_PipelineFailureSkips ==
    [][mlOp'.op = "tick"
         => /\ ~mlOp'.raised
            /\ predict_timer'
            /\ UNCHANGED <<model_csp, scaler, model_clf, model_ready>>
            /\ (mlOp'.win # "ok" \/ CspRaises(Model, 8, mlOp'.fail)
                  \/ ScalerRaises(Model, mlOp'.fail)
                  \/ ClfRaises(Model, mlOp'.fail)) => ~mlOp'.emitted]_vars

(* a tick failed in the classifier of a trained model, the timer still on  *)
C14_Witness ==
    /\ mlOp.op = "tick" /\ mlOp.failed = "clf" /\ ~mlOp.emitted
    /\ predict_timer /\ model_ready

----------------------------------------------------------------------------
(* One acquisition session in detail: the statements of                    *)
(* AcquisitionThread.run with its locals and transport handle, the         *)
(* worker's handlers of its signals, and start/stop requests.  The races   *)
(* on EEGWorker.acq_thread between two stop_acquisition calls are the      *)
(* subject of the specification Spec above; here a start request is made   *)
(* while no stop_acquisition is in progress.                               *)

(* Bounds of the session specification *)
SamplesPerChunk == 2   \* rows of one chunk
MaxSessions == 2   \* accepted start_acquisition calls over one behaviour
MaxReads == 2      \* chunks one thread decodes and emits
MaxBad == 1        \* dropped units (short packet, malformed line) per thread
MaxStops == 2      \* stop_acquisition calls made by the caller
MaxSigQ == 3       \* queued signals beyond which a thread holds back its next chunk

Srates == {250, 500}
Chans == {4, 8}
Configs == [mode : Modes, srate : Srates, n_channels : Chans]

(* what the transport does at connection time, per mode:                   *)
(*   missing  the optional module (pyserial, pybluez) is not installed     *)
(*   refused  opening the port / connecting the socket raises              *)
(*   ok       the handle is open and connected                             *)
ConnectOutcomes(mode) ==
    CASE mode = "demo" -> {"ok"}
      [] mode = "serial" -> {"missing", "refused", "ok"}
      [] mode = "bluetooth" -> {"missing", "refused", "ok"}
      [] mode = "tcp" -> {"refused", "ok"}

(* select() on the connected socket with the 2 s timeout: data arrived,    *)
(* the peer closed (end-of-file makes a socket readable), or nothing       *)
Handshakes == {"data", "eof", "silent"}

(* what one pass of the loop body meets, per mode *)
Units(mode) ==
    CASE mode = "demo" -> {"good"}
      [] mode = "serial" -> {"good", "malformed", "idle", "error"}
      [] mode = "bluetooth" -> {"good", "idle"}
      [] mode = "tcp" -> {"good", "short", "partial", "timeout", "blocking", "closed",
                          "error"}

SessSignal(sig, sid, k) == [sig |-> sig, sid |-> sid, k |-> k]

(* start_acquisition: the thread object it constructs and starts *)
new_thread(old, cfg) ==
    [NoSessThread EXCEPT !.id = old.id + 1, !.ref = TRUE, !.pc = "created",
                         !.cfg = cfg, !.attempts = old.attempts]

(* run(), lines 105-108 *)
sess_run_enter(th) ==
    [th EXCEPT !.pc = "connect", !.running = TRUE,
               !.srate = th.cfg.srate, !.n_ch = th.cfg.n_channels]

(* the handle the failed attempt had opened: serial.Serial raised before   *)
(* ser was bound, a missing module raised before anything was opened,      *)
(* BluetoothSocket and socket.socket were created before connect raised    *)
OpenedBeforeFailure(mode, outcome) ==
    outcome = "refused" /\ mode \in {"bluetooth", "tcp"}

(* the except clause of stage 1 *)
sess_connect_failed_leaks(th, reason, opened) ==
    [th EXCEPT !.pc = "done", !.running = FALSE, !.reason = reason,
               !.handle = IF opened THEN "open" ELSE "none",
               !.ev = Append(th.ev, "connection_result_false")]

sess_connect_failed(th, reason, opened) ==
    [th EXCEPT !.pc = "done", !.running = FALSE, !.reason = reason,
               !.handle = IF opened THEN "closed" ELSE "none",
               !.ev = Append(th.ev, "connection_result_false")]

(* stage 1 succeeded in a mode without handshake *)
sess_connected(th) ==
    [th EXCEPT !.pc = "loop",
               !.handle = IF th.cfg.mode = "demo" THEN "none" ELSE "open",
               !.ev = Append(th.ev, "connection_result_true")]

(* the tcp branch after sock.connect: the NeuSenW parameters *)
sess_tcp_connected(th) ==
    [th EXCEPT !.pc = "handshake", !.handle = "open",
               !.srate = 1000, !.n_ch = 9, !.bufsize = 9 * 40 * 4]

(* the first-packet check: select() returned the socket or an empty list *)
sess_handshake(th, h) ==
    IF h = "silent"
    THEN sess_connect_failed([th EXCEPT !.hs = h], "no_data", TRUE)
    ELSE [th EXCEPT !.hs = h, !.pc = "loop",
                    !.ev = Append(th.ev, "connection_result_true")]

(* one pass of the loop body that raises nothing *)
sess_read_bad_raises(th, unit) ==
    IF unit = "good"
    THEN [th EXCEPT !.last = unit, !.reads = th.reads + 1,
                    !.ev = Append(th.ev, "data_ready")]
    ELSE [th EXCEPT !.last = unit, !.pc = "raised"]

(* the loop has a branch for demo, serial and tcp and none for bluetooth:  *)
(* whatever waits on the Bluetooth socket, chunk stays None.  A tcp recv   *)
(* with MSG_WAITALL that got part of a packet stays in the call.           *)
sess_read(th, unit) ==
    IF th.cfg.mode = "bluetooth" THEN [th EXCEPT !.last = unit]
    ELSE CASE unit = "good" ->
                [th EXCEPT !.last = unit, !.reads = th.reads + 1,
                           !.ev = Append(th.ev, "data_ready")]
           [] unit \in {"short", "malformed"} ->
                [th EXCEPT !.last = unit, !.bad = th.bad + 1]
           [] unit \in {"closed", "error"} ->
                [th EXCEPT !.last = unit, !.pc = "raised"]
           [] unit = "partial" ->
                [th EXCEPT !.last = unit, !.pc = "blocked"]
           [] OTHER -> [th EXCEPT !.last = unit]

(* the outer except and finally clauses; flag keeps what the test of       *)
(* self._running found                                                     *)
sess_except_silent(th) ==
    [th EXCEPT !.pc = "done", !.flag = th.running,
               !.handle = IF th.handle = "open" THEN "closed" ELSE th.handle]

sess_except(th) ==
    [th EXCEPT !.pc = "done", !.flag = th.running,
               !.handle = IF th.handle = "open" THEN "closed" ELSE th.handle,
               !.ev = IF th.running THEN Append(th.ev, "error_occurred")
                      ELSE th.ev]

(* the loop test found the flag cleared: the finally clause *)
sess_loop_exit(th) ==
    [th EXCEPT !.pc = "done",
               !.handle = IF th.handle = "open" THEN "closed" ELSE th.handle]

(* _init_runtime_resources *)
init_runtime_resources_no_override(rt, cfg, sid) ==
    [rt EXCEPT !.srate = cfg.srate, !.n_channels = cfg.n_channels,
               !.buffer = [width |-> cfg.n_channels, maxlen |-> cfg.srate * 10],
               !.header = cfg.n_channels, !.mode = cfg.mode, !.inited = sid,
               !.log = [open |-> TRUE, sid |-> sid, rows |-> <<>>],
               !.appended = <<>>, !.forwarded = <<>>]

init_runtime_resources(rt, cfg, sid) ==
    LET sr == IF cfg.mode = "tcp" THEN 1000 ELSE cfg.srate
        nc == IF cfg.mode = "tcp" THEN 9 ELSE cfg.n_channels
    IN  [rt EXCEPT !.srate = sr, !.n_channels = nc,
                   !.buffer = [width |-> nc, maxlen |-> sr * 10],
                   !.header = nc, !.mode = cfg.mode, !.inited = sid,
                   !.log = [open |-> TRUE, sid |-> sid, rows |-> <<>>],
               !.appended = <<>>, !.forwarded = <<>>]

(* _on_data_received on chunk k of session sid: with a csv_writer, one row *)
(* per sample of the chunk, in order; with a buffer, the chunk is appended *)
(* to it; the chunk is forwarded on sig_samples_ready.  appended lists the *)
(* chunks put into the present RingBuffer, forwarded the raw-chunk events  *)
(* since that buffer was created.                                          *)
ChunkRows(sid, k) == [i \in 1..SamplesPerChunk |-> <<sid, k, i>>]
HasBuffer(rt) == rt.buffer.maxlen > 0
on_data_received(rt, sid, k) ==
    LET logged == IF rt.log.open
                    THEN [rt EXCEPT !.log.rows = rt.log.rows \o ChunkRows(sid, k)]
                    ELSE rt
        stored == IF HasBuffer(rt)
                    THEN [logged EXCEPT !.appended = Append(@, <<sid, k>>)]
                    ELSE logged
    IN  [stored EXCEPT !.forwarded = Append(@, <<sid, k>>)]

(* stop_acquisition, lines 352-355: csv_file.close() *)
close_log(rt) == [rt EXCEPT !.log.open = FALSE]

(* int(self.win_size_sec * self.srate) with win_size_sec = 1.0 *)
PredictionWindow(rt) == rt.srate

SessIsRunning(th) ==
    th.pc \in {"created", "connect", "handshake", "loop", "blocked", "raised"}
NoStopInProgress == \A e \in Executors : stopper[e] = "idle"
Emit(th) ==
    LET sig == th.ev[Len(th.ev)]
    IN  Append(sigQ, SessSignal(sig, th.id, IF sig = "data_ready" THEN th.reads ELSE 0))

(* an event on EEGWorker.sig_connected: success flag, the session it is    *)
(* about, whether it carries the connection result or the "disconnected"   *)
(* notice of stop_acquisition, and the thread that emitted it              *)
Outcome(ok, sid, msg, by) == [ok |-> ok, sid |-> sid, msg |-> msg, by |-> by]

(* stop_acquisition up to its wait(): with a thread object the flag is     *)
(* cleared and the caller blocks; without one the call runs to its end     *)
stop_begin(th) == IF th.ref THEN [th EXCEPT !.running = FALSE] ELSE th
StopTail(events, th, e) == Append(events, Outcome(FALSE, th.id, "disconnected", e))

SessPinned == <<acqVars, mlVars, pureVars, rbVars, lastOp, calVars, flowVars>>

SessStart(cfg) ==
    /\ thread.id < MaxSessions
    /\ NoStopInProgress
    /\ ~(thread.ref /\ SessIsRunning(thread))
    /\ config' = cfg
    /\ thread' = new_thread(thread, cfg)
    /\ UNCHANGED <<sigQ, sig_connected, runtime, stopper, SessPinned>>

SessRunEnter ==
    /\ thread.pc = "created"
    /\ thread' = sess_run_enter(thread)
    /\ UNCHANGED <<config, sigQ, sig_connected, runtime, stopper, SessPinned>>

SessConnect(outcome) ==
    /\ thread.pc = "connect"
    /\ outcome \in ConnectOutcomes(thread.cfg.mode)
    /\ LET th == [thread EXCEPT !.attempts = thread.attempts + 1]
       IN  IF outcome = "ok"
           THEN IF th.cfg.mode = "tcp"
                THEN /\ thread' = sess_tcp_connected(th)
                     /\ UNCHANGED sigQ
                ELSE /\ thread' = sess_connected(th)
                     /\ sigQ' = Emit(thread')
           ELSE /\ thread' = sess_connect_failed(th, outcome,
                                OpenedBeforeFailure(th.cfg.mode, outcome))
                /\ sigQ' = Emit(thread')
    /\ UNCHANGED <<config, sig_connected, runtime, stopper, SessPinned>>

SessHandshake(h) ==
    /\ thread.pc = "handshake"
    /\ thread' = sess_handshake(thread, h)
    /\ sigQ' = Emit(thread')
    /\ UNCHANGED <<config, sig_connected, runtime, stopper, SessPinned>>

SessRead(unit) ==
    /\ thread.pc = "loop" /\ thread.running
    /\ unit \in Units(thread.cfg.mode)
    /\ unit = "good" => (thread.reads < MaxReads /\ Len(sigQ) < MaxSigQ)
    /\ unit \in {"short", "malformed"} => thread.bad < MaxBad
    /\ thread' = sess_read(thread, unit)
    /\ sigQ' = IF Len(thread'.ev) > Len(thread.ev) THEN Emit(thread') ELSE sigQ
    /\ UNCHANGED <<config, sig_connected, runtime, stopper, SessPinned>>

(* the blocked recv returns: the peer sent the rest of the packet, or      *)
(* closed with part of it or none of it delivered                          *)
SessRecvReturns(unit) ==
    /\ thread.pc = "blocked"
    /\ unit = "good" => (thread.reads < MaxReads /\ Len(sigQ) < MaxSigQ)
    /\ unit = "short" => thread.bad < MaxBad
    /\ thread' = sess_read([thread EXCEPT !.pc = "loop"], unit)
    /\ sigQ' = IF Len(thread'.ev) > Len(thread.ev) THEN Emit(thread') ELSE sigQ
    /\ UNCHANGED <<config, sig_connected, runtime, stopper, SessPinned>>

SessExcept ==
    /\ thread.pc = "raised"
    /\ thread' = sess_except(thread)
    /\ sigQ' = IF Len(thread'.ev) > Len(thread.ev) THEN Emit(thread') ELSE sigQ
    /\ UNCHANGED <<config, sig_connected, runtime, stopper, SessPinned>>

SessLoopExit ==
    /\ thread.pc = "loop" /\ ~thread.running
    /\ thread' = sess_loop_exit(thread)
    /\ UNCHANGED <<config, sigQ, sig_connected, runtime, stopper, SessPinned>>

(* the worker's thread delivers the oldest queued signal to its handler:   *)
(* _on_thread_connection_result, _on_data_received or _on_acq_error        *)
SessDispatch ==
    /\ sigQ # <<>>
    /\ stopper["worker"] = "idle"
    /\ sigQ' = Tail(sigQ)
    /\ LET m == Head(sigQ)
           result == Outcome(m.sig = "connection_result_true", m.sid,
                             "result", "worker")
       IN  CASE m.sig = "connection_result_true" ->
                  /\ runtime' = init_runtime_resources(runtime, config, m.sid)
                  /\ sig_connected' = Append(sig_connected, result)
                  /\ UNCHANGED <<thread, stopper>>
             [] m.sig = "data_ready" ->
                  /\ runtime' = on_data_received(runtime, m.sid, m.k)
                  /\ UNCHANGED <<sig_connected, thread, stopper>>
             [] OTHER ->
                  LET events == IF m.sig = "connection_result_false"
                                THEN Append(sig_connected, result)
                                ELSE sig_connected
                  IN  /\ thread' = stop_begin(thread)
                      /\ IF thread.ref
                         THEN /\ stopper' = [stopper EXCEPT !["worker"] = "wait"]
                              /\ sig_connected' = events
                              /\ UNCHANGED runtime
                         ELSE /\ sig_connected' = StopTail(events, thread, "worker")
                              /\ runtime' = close_log(runtime)
                              /\ UNCHANGED stopper
    /\ UNCHANGED <<config, SessPinned>>

StopsByCaller ==
    Cardinality({i \in 1..Len(sig_connected) : sig_connected[i].by = "gui"})

(* the caller's stop_acquisition (EEGModule._on_btn_disconnect) *)
SessStop ==
    /\ stopper["gui"] = "idle"
    /\ StopsByCaller < MaxStops
    /\ thread' = stop_begin(thread)
    /\ IF thread.ref
       THEN /\ stopper' = [stopper EXCEPT !["gui"] = "wait"]
            /\ UNCHANGED <<sig_connected, runtime>>
       ELSE /\ sig_connected' = StopTail(sig_connected, thread, "gui")
            /\ runtime' = close_log(runtime)
            /\ UNCHANGED stopper
    /\ UNCHANGED <<config, sigQ, SessPinned>>

(* wait() returns once run() has returned; the rest of stop_acquisition *)
SessStopJoin(e) ==
    /\ stopper[e] = "wait"
    /\ ~SessIsRunning(thread)
    /\ thread' = [thread EXCEPT !.ref = FALSE]
    /\ sig_connected' = StopTail(sig_connected, thread, e)
    /\ runtime' = close_log(runtime)
    /\ stopper' = [stopper EXCEPT ![e] = "idle"]
    /\ UNCHANGED <<config, sigQ, SessPinned>>

NextSession ==
    \/ \E cfg \in Configs : SessStart(cfg)
    \/ SessRunEnter
    \/ \E o \in {"missing", "refused", "ok"} : SessConnect(o)
    \/ \E h \in Handshakes : SessHandshake(h)
    \/ \E u \in {"good", "short", "malformed", "partial", "idle", "timeout",
                 "blocking", "closed", "error"} : SessRead(u)
    \/ \E u \in {"good", "short", "closed"} : SessRecvReturns(u)
    \/ SessExcept
    \/ SessLoopExit
    \/ SessDispatch
    \/ SessStop
    \/ \E e \in Executors : SessStopJoin(e)

SpecSession == InitAcq /\ [][NextSession]_vars

Count(seq, x) == Cardinality({i \in 1..Len(seq) : seq[i] = x})
Has(seq, x) == \E i \in 1..Len(seq) : seq[i] = x
ConnectFailed(th) == Has(th.ev, "connection_result_false")
ConnectionLost(th) ==
    th.cfg.mode = "tcp" /\ th.pc = "done" /\ th.last \in {"closed", "error"}

(* the events with success = false that the worker's own handlers emitted  *)
(* about session s                                                         *)
FailureEvents(s) ==
    {i \in 1..Len(sig_connected) :
        /\ ~sig_connected[i].ok
        /\ sig_connected[i].sid = s
        /\ sig_connected[i].by = "worker"}

(* C15: for a start_acquisition whose connection attempt failed, exactly   *)
(* one event with success = false is delivered on sig_connected (events    *)
(* caused by the caller's own stop requests are not counted).              *)
C15_FailureReportedOnce ==
    \A s \in 1..MaxSessions :
       (\E i \in FailureEvents(s) : sig_connected[i].msg = "result")
          => Cardinality(FailureEvents(s)) = 1

(* C16: a thread whose connection attempt failed has returned from run()   *)
(* without emitting data, the handle it had opened is closed, and there    *)
(* was never more than one connection attempt per accepted start.          *)
C16_FailedConnectionEnds ==
    /\ ConnectFailed(thread)
         => /\ thread.pc = "done"
            /\ thread.handle \in {"none", "closed"}
            /\ ~Has(thread.ev, "data_ready")
            /\ ~Has(thread.ev, "connection_result_true")
    /\ thread.attempts <= thread.id

(* the second session failed after its socket was created *)
C16_Witness ==
    /\ thread.id = 2 /\ thread.attempts = 2
    /\ ConnectFailed(thread)
    /\ thread.handle = "closed"

(* C17 as stated: a session that lost its connection while streaming       *)
(* emitted exactly one error_occurred, as its last signal, and closed the  *)
(* handle.                                                                 *)
C17_LossReportedOnce ==
    ConnectionLost(thread)
       => /\ Count(thread.ev, "error_occurred") = 1
          /\ thread.ev[Len(thread.ev)] = "error_occurred"
          /\ thread.handle = "closed"

(* C17 amended: a session that lost its connection has left the loop with  *)
(* the handle closed; it emitted exactly one error_occurred, as its last   *)
(* signal, if the running flag was still set when the error was handled,   *)
(* and none if a stop request had cleared the flag by then.                *)
C17_LossReportedUnlessStopped ==
    ConnectionLost(thread)
       => /\ thread.handle = "closed"
          /\ Count(thread.ev, "error_occurred") = (IF thread.flag THEN 1 ELSE 0)
          /\ thread.flag => thread.ev[Len(thread.ev)] = "error_occurred"
          /\ ~thread.flag => ~thread.running

(* the tcp peer closed after a packet had been emitted *)
C17_Witness ==
    /\ ConnectionLost(thread)
    /\ thread.cfg.mode = "tcp" /\ thread.last = "closed"
    /\ thread.reads >= 1
    /\ thread.flag
    /\ thread.ev[Len(thread.ev)] = "error_occurred"

(* a pass of the loop body of a streaming thread that met a wrong-length   *)
(* packet or a malformed line                                              *)
BadRead ==
    /\ thread.pc = "loop" /\ thread.running /\ thread'.running
    /\ thread'.id = thread.id /\ thread'.ref = thread.ref
    /\ thread' # thread
    /\ thread'.last \in {"short", "malformed"}

(* C18: a wrong-length tcp read or a malformed serial line emits nothing,  *)
(* queues nothing and leaves the thread in its loop with the handle open,  *)
(* and every well-formed unit read afterwards is emitted as data_ready.    *)
C18_FrameErrorsRecoverable ==
    [][/\ BadRead
            => /\ thread'.ev = thread.ev
               /\ thread'.bad = thread.bad + 1
               /\ sigQ' = sigQ
               /\ thread'.pc = "loop"
               /\ thread'.handle = thread.handle
               /\ thread'.running = thread.running
       /\ (thread'.id = thread.id /\ thread.pc = "loop" /\ thread'.last = "good"
             /\ thread'.reads = thread.reads + 1)
            => /\ thread'.ev = Append(thread.ev, "data_ready")
               /\ thread'.pc = "loop"]_vars

(* a chunk emitted after a dropped unit *)
C18_Witness ==
    /\ thread.bad >= 1
    /\ thread.last = "good"
    /\ thread.pc = "loop"
    /\ thread.ev[Len(thread.ev)] = "data_ready"

(* C19: a tcp thread has emitted connection_result(True) only if data      *)
(* arrived within the handshake wait, and a connected but silent peer      *)
(* gives a failure whose reason differs from that of a refused socket.     *)
C19_SuccessNeedsData ==
    thread.cfg.mode = "tcp"
       => /\ Has(thread.ev, "connection_result_true") => thread.hs = "data"
          /\ thread.hs = "silent" => (ConnectFailed(thread) /\ thread.reason = "no_data")

(* C20: in tcp mode the thread works with 1000 Hz, 9 channels and          *)
(* 1440-byte packets from the connect on, and a worker initialised under a *)
(* tcp configuration has srate 1000, 9 channels, a 10000 x 9 buffer, a     *)
(* 9-column header and a 1000-sample prediction window.                    *)
C20_TcpParametersForced ==
    /\ (thread.cfg.mode = "tcp" /\ thread.pc \in {"handshake", "loop", "raised"})
          => (thread.srate = 1000 /\ thread.n_ch = 9 /\ thread.bufsize = 1440)
    /\ runtime.mode = "tcp"
          => /\ runtime.srate = 1000 /\ runtime.n_channels = 9
             /\ runtime.buffer = [width |-> 9, maxlen |-> 10000]
             /\ runtime.header = 9
             /\ PredictionWindow(runtime) = 1000

(* a streaming tcp session whose configuration asked for other values *)
C20_Witness ==
    /\ config.mode = "tcp" /\ config.srate = 250 /\ config.n_channels = 8
    /\ thread.cfg = config /\ thread.pc = "loop"
    /\ runtime.mode = "tcp" /\ runtime.inited = thread.id

----------------------------------------------------------------------------
(* The pure functions of the pipeline, each applied to arguments drawn     *)
(* from bounded sets: the serial line parser and the tcp packet decoder of *)
(* AcquisitionThread.run, CSP.fit / CSP.transform and dsp.butter_filter.   *)

(* Bounds of the serial parser *)
MaxStream == 5     \* characters a serial device sends over one behaviour
MaxSerialCh == 2   \* largest channel count of a serial session

(* the characters of a serial stream: digits, a non-numeric character, the *)
(* token separator and the record terminator                               *)
Digits == {"1", "2"}
Chars == Digits \cup {"x", ",", "\n"}

(* str.split(sep): the pieces between separators, always at least one *)
RECURSIVE Split(_, _)
Split(s, sep) ==
    IF s = <<>> THEN << <<>> >>
    ELSE LET rest == Split(Tail(s), sep)
         IN  IF Head(s) = sep
             THEN << <<>> >> \o rest
             ELSE << <<Head(s)>> \o Head(rest) >> \o Tail(rest)

(* float(p) succeeds on a non-empty run of digits; its value is identified *)
(* with the run (no digit is 0, so distinct runs are distinct values)      *)
Numeric(p) == p # <<>> /\ \A i \in 1..Len(p) : p[i] \in Digits

(* the body of `for line in lines`: the sample a line yields, as a         *)
(* sequence of zero or one samples                                         *)
parse_line_any_count(line, n_ch) ==
    LET parts == Split(line, ",")
        used == PySliceTo(parts, n_ch)
    IN  IF \A j \in 1..Len(used) : Numeric(used[j]) THEN <<used>> ELSE <<>>

parse_line(line, n_ch) ==
    LET parts == Split(line, ",")
        used == PySliceTo(parts, n_ch)
    IN  IF Len(parts) >= n_ch
        THEN IF \A j \in 1..Len(used) : Numeric(used[j]) THEN <<used>> ELSE <<>>
        ELSE <<>>

RECURSIVE parse_lines(_, _)
parse_lines(lines, n_ch) ==
    IF lines = <<>> THEN <<>>
    ELSE parse_line(Head(lines), n_ch) \o parse_lines(Tail(lines), n_ch)

(* one pass of the serial branch over the bytes raw_s that were waiting:   *)
(* the rows of the chunk it emits (no rows: nothing is emitted)            *)
serial_read(raw_s, n_ch) == parse_lines(Split(raw_s, "\n"), n_ch)

Streams == UNION {[1..k -> Chars] : k \in 0..MaxStream}
SerialCalls ==
    {[fn |-> "serial", stream |-> st, cut |-> c, n_ch |-> n, stage |-> 0,
      raw_s |-> <<>>, vals |-> <<>>, out |-> <<>>] :
        st \in Streams, c \in 0..MaxStream, n \in 1..MaxSerialCh}

(* the device's stream reaches the thread in two reads, cut anywhere *)
SerialRead ==
    /\ call.fn = "serial" /\ call.stage < 2
    /\ LET cut == Min(call.cut, Len(call.stream))
           raw_s == IF call.stage = 0 THEN SubSeq(call.stream, 1, cut)
                    ELSE SubSeq(call.stream, cut + 1, Len(call.stream))
           vals == IF raw_s = <<>> THEN <<>> ELSE serial_read(raw_s, call.n_ch)
       IN  call' = [call EXCEPT !.stage = call.stage + 1, !.raw_s = raw_s,
                                !.vals = vals,
                                !.out = IF vals # <<>> THEN Append(call.out, vals)
                                        ELSE call.out]
    /\ UNCHANGED <<task, logio, acqVars, mlVars, sessVars, rbVars, lastOp, calVars, flowVars>>

(* Bounds of the tcp packet decoder *)
MaxTcpCh == 2      \* channel count n_ch of a packet (9 in the code)
MaxPoints == 2     \* pack_points of a packet (40 in the code)

(* the four bytes of one float; a float is identified with its bit pattern *)
Words == {<<1, 0, 0, 0>>, <<0, 1, 0, 0>>, <<0, 0, 0, 1>>}
LE32(b) == b[1] + 256 * b[2] + 65536 * b[3] + 16777216 * b[4]

RECURSIVE Concat(_)
Concat(ws) == IF ws = <<>> THEN <<>> ELSE Head(ws) \o Concat(Tail(ws))

(* struct.unpack('<' + 'f' * n_items, raw_bytes) *)
unpack(raw_bytes, n_items) ==
    [i \in 1..n_items |-> LE32(SubSeq(raw_bytes, 4 * (i - 1) + 1, 4 * i))]

(* np.array(vals).reshape(rows, cols), C order *)
reshape_column_major(vals, rows, cols) ==
    [r \in 1..rows |-> [c \in 1..cols |-> vals[(c - 1) * rows + r]]]

reshape(vals, rows, cols) ==
    [r \in 1..rows |-> [c \in 1..cols |-> vals[(r - 1) * cols + c]]]

(* the tcp branch from the recv on: peer closed, dropped frame, or a chunk *)
tcp_decode(raw_bytes, n_ch, pack_points) ==
    LET bufsize == n_ch * pack_points * 4
    IN  IF raw_bytes = <<>> THEN [res |-> "raise", chunk |-> <<>>]
        ELSE IF Len(raw_bytes) # bufsize THEN [res |-> "drop", chunk |-> <<>>]
        ELSE [res |-> "chunk",
              chunk |-> reshape(unpack(raw_bytes, n_ch * pack_points),
                                pack_points, n_ch)]

TcpCalls ==
    {[fn |-> "tcp", n_ch |-> n, pack_points |-> pp, stage |-> 0,
      raw_bytes |-> PySliceTo(Concat(ws), 4 * n * pp - short),
      out |-> [res |-> "", chunk |-> <<>>]] :
        n \in 1..MaxTcpCh, pp \in 1..MaxPoints, short \in {0, 1},
        ws \in UNION {[1..(a * b) -> Words] : a \in 1..MaxTcpCh, b \in 1..MaxPoints}}

TcpDecode ==
    /\ call.fn = "tcp" /\ call.stage = 0
    /\ call' = [call EXCEPT !.stage = 1,
                            !.out = tcp_decode(call.raw_bytes, call.n_ch,
                                               call.pack_points)]
    /\ UNCHANGED <<task, logio, acqVars, mlVars, sessVars, rbVars, lastOp, calVars, flowVars>>

(* Bounds of the CSP model *)
MaxComp == 4       \* largest n_components
MaxCspCh == 3      \* largest channel count of the training data

(* class CSP.  filters_ is None or the matrix whose rows are the selected  *)
(* eigenvectors: sel lists which columns of the sorted eigvecs were taken, *)
(* n_channels is the length of each.                                       *)
NoFilters == [fitted |-> FALSE, sel |-> <<>>, n_channels |-> 0]
OldFilters == [fitted |-> TRUE, sel |-> <<1, 2>>, n_channels |-> 2]

(* _fit_vectorized from the eigh on: eigvecs[:, :m] and eigvecs[:, -m:]    *)
fit_vectorized(n_components, n_channels) ==
    LET columns == [i \in 1..n_channels |-> i]
        m == n_components \div 2
    IN  [fitted |-> TRUE,
         sel |-> PySliceTo(columns, m) \o PySliceFrom(columns, 0 - m),
         n_channels |-> n_channels]

(* CSP.fit: a raise leaves self.filters_ as it was *)
fit_unchecked(filters_, n_components, ndim, n_classes, n_channels, eigh_ok) ==
    [raised |-> FALSE, filters_ |-> fit_vectorized(n_components, n_channels)]

fit(filters_, n_components, ndim, n_classes, n_channels, eigh_ok) ==
    IF ndim # 3 \/ n_classes # 2 \/ ~eigh_ok
    THEN [raised |-> TRUE, filters_ |-> filters_]
    ELSE [raised |-> FALSE, filters_ |-> fit_vectorized(n_components, n_channels)]

(* CSP.transform on n_trials trials of x_channels channels: the shape of   *)
(* the feature matrix, or a raise (not fitted, np.dot on mismatched        *)
(* shapes, feats[i] = ... on a vector that does not broadcast to length    *)
(* n_components)                                                           *)
transform(filters_, n_components, n_trials, x_channels) ==
    LET rows == Len(filters_.sel)
    IN  IF ~filters_.fitted \/ filters_.n_channels # x_channels
           \/ (rows # n_components /\ rows # 1)
        THEN [raised |-> TRUE, shape |-> <<>>]
        ELSE [raised |-> FALSE, shape |-> <<n_trials, n_components>>]

CspCalls ==
    {[fn |-> "csp", n_components |-> k, ndim |-> nd, n_classes |-> nc,
      n_channels |-> ch, eigh_ok |-> ok, old |-> old, n_trials |-> nt,
      stage |-> 0, out |-> [raised |-> FALSE, filters_ |-> old],
      feats |-> [raised |-> FALSE, shape |-> <<>>]] :
        k \in 1..MaxComp, nd \in 2..4, nc \in 1..3, ch \in 1..MaxCspCh,
        ok \in BOOLEAN, old \in {NoFilters, OldFilters}, nt \in 1..2}

(* fit on the training data, then transform of n_trials trials of the same *)
(* channel count (a single 2-D trial is a batch of one)                    *)
CspFit ==
    /\ call.fn = "csp" /\ call.stage = 0
    /\ LET res == fit(call.old, call.n_components, call.ndim, call.n_classes,
                      call.n_channels, call.eigh_ok)
       IN  call' = [call EXCEPT !.stage = 1, !.out = res,
                       !.feats = transform(res.filters_, call.n_components,
                                           call.n_trials, call.n_channels)]
    /\ UNCHANGED <<task, logio, acqVars, mlVars, sessVars, rbVars, lastOp, calVars, flowVars>>

(* butter_filter(data, fs, f_low, f_high).  A cutoff is NoCutoff (None) or *)
(* a frequency >= 0; Python truth makes both None and 0 select "absent".   *)
(* nyq = 0.5 * fs, so f >= nyq is 2 * f >= fs.  The filtered signal is a   *)
(* value distinct from the data: the band type and the data it came from.  *)
NoCutoff == 0 - 1
Truthy(f) == f # NoCutoff /\ f # 0
Unfiltered(data) == [btype |-> "none", of |-> data]
Filtered(btype, data) == [btype |-> btype, of |-> data]

butter_filter_no_nyquist_test(data, fs, f_low, f_high, math_ok) ==
    IF fs <= 0 \/ data = <<>> THEN Unfiltered(data)
    ELSE IF ~math_ok THEN Unfiltered(data)
    ELSE IF Truthy(f_low) /\ Truthy(f_high) THEN Filtered("band", data)
    ELSE IF Truthy(f_high) THEN Filtered("low", data)
    ELSE IF Truthy(f_low) THEN Filtered("high", data)
    ELSE Unfiltered(data)

butter_filter(data, fs, f_low, f_high, math_ok) ==
    IF fs <= 0 \/ data = <<>> THEN Unfiltered(data)
    ELSE IF Truthy(f_low) /\ Truthy(f_high)
         THEN IF f_low >= f_high \/ 2 * f_high >= fs THEN Unfiltered(data)
              ELSE IF math_ok THEN Filtered("band", data) ELSE Unfiltered(data)
    ELSE IF Truthy(f_high)
         THEN IF 2 * f_high >= fs THEN Unfiltered(data)
              ELSE IF math_ok THEN Filtered("low", data) ELSE Unfiltered(data)
    ELSE IF Truthy(f_low)
         THEN IF 2 * f_low >= fs THEN Unfiltered(data)
              ELSE IF math_ok THEN Filtered("high", data) ELSE Unfiltered(data)
    ELSE Unfiltered(data)

Rates == {0 - 1, 0, 4, 8}
Cutoffs == {NoCutoff, 0, 1, 2, 4}
ButterCalls ==
    {[fn |-> "butter", data |-> dt, fs |-> fs, f_low |-> lo, f_high |-> hi,
      math_ok |-> ok, stage |-> 0, out |-> Unfiltered(<<>>)] :
        dt \in {<<>>, <<1, 2>>}, fs \in Rates, lo \in Cutoffs, hi \in Cutoffs,
        ok \in BOOLEAN}

ButterFilter ==
    /\ call.fn = "butter" /\ call.stage = 0
    /\ call' = [call EXCEPT !.stage = 1,
                            !.out = butter_filter(call.data, call.fs, call.f_low,
                                                  call.f_high, call.math_ok)]
    /\ UNCHANGED <<task, logio, acqVars, mlVars, sessVars, rbVars, lastOp, calVars, flowVars>>

(* Bounds of the demo generator *)
MaxTicks == 3      \* passes of the demo branch over one behaviour

(* the demo branch of the loop.  Times are counted in sample periods       *)
(* dt_sim = 1 / srate, so time_vec = t_sim + arange(n_gen) * dt_sim is     *)
(* t_sim, t_sim + 1, ..., and t_sim = time_vec[-1] afterwards.             *)
DemoRates == {10, 25, 50, 250}
n_gen(srate) == Max(1, (srate * 4) \div 100)
time_vec(t_sim, n) == [i \in 1..n |-> t_sim + (i - 1)]
demo_tick(c) ==
    LET tv == time_vec(c.t_sim, n_gen(c.srate))
    IN  [c EXCEPT !.stage = c.stage + 1, !.chunks = Append(c.chunks, tv),
                  !.t_sim = tv[Len(tv)]]

DemoCalls ==
    {[fn |-> "demo", srate |-> r, stage |-> 0, t_sim |-> 0, chunks |-> <<>>] :
        r \in DemoRates}

DemoTick ==
    /\ call.fn = "demo" /\ call.stage < MaxTicks
    /\ call' = demo_tick(call)
    /\ UNCHANGED <<task, logio, acqVars, mlVars, sessVars, rbVars, lastOp, calVars, flowVars>>

(* The pure functions, each applied to one input drawn at the start *)
InitPure ==
    /\ AcqInit
    /\ CalIdleRB
    /\ hist = <<>>
    /\ lastOp = NoOp
    /\ CalInit
    /\ FlowInit
    /\ call \in SerialCalls \cup TcpCalls \cup CspCalls \cup ButterCalls \cup DemoCalls

NextPure == SerialRead \/ TcpDecode \/ CspFit \/ ButterFilter \/ DemoTick

SpecPure == InitPure /\ [][NextPure]_vars

(* a line with at least n_ch comma-separated tokens, the first n_ch numeric *)
Qualifies(line, n_ch) ==
    LET parts == Split(line, ",")
    IN  Len(parts) >= n_ch /\ \A j \in 1..n_ch : Numeric(parts[j])
FirstTokens(line, n_ch) == SubSeq(Split(line, ","), 1, n_ch)

(* C21: the samples of one serial read are, in line order, the first       *)
(* channel_count tokens of exactly those lines of the read that have at    *)
(* least channel_count tokens with the first channel_count all numeric;    *)
(* every other line yields no sample.                                      *)
C21_SerialSamples ==
    (call.fn = "serial" /\ call.stage > 0 /\ call.raw_s # <<>>) =>
        LET lines == Split(call.raw_s, "\n")
            Q == {i \in 1..Len(lines) : Qualifies(lines[i], call.n_ch)}
        IN  /\ Len(call.vals) = Cardinality(Q)
            /\ \E f \in [1..Len(call.vals) -> Q] :
                  /\ \A j, k \in 1..Len(call.vals) : j < k => f[j] < f[k]
                  /\ \A j \in 1..Len(call.vals) :
                        call.vals[j] = FirstTokens(lines[f[j]], call.n_ch)

(* a read of three lines: two different samples and one dropped line *)
C21_Witness ==
    /\ call.fn = "serial" /\ call.stage > 0
    /\ Len(Split(call.raw_s, "\n")) = 3
    /\ Len(call.vals) = 2
    /\ call.vals[1] # call.vals[2]

(* C28: when every record of the stream is newline-terminated, however the *)
(* stream is cut into two reads, every emitted sample is the first         *)
(* channel_count tokens of one complete record of the stream.              *)
C28_OnlyCompleteRecords ==
    (/\ call.fn = "serial" /\ call.stage = 2
     /\ call.stream # <<>> /\ call.stream[Len(call.stream)] = "\n") =>
        LET records == Split(call.stream, "\n")
        IN  \A c \in 1..Len(call.out) : \A j \in 1..Len(call.out[c]) :
                \E i \in 1..(Len(records) - 1) :
                    /\ Qualifies(records[i], call.n_ch)
                    /\ call.out[c][j] = FirstTokens(records[i], call.n_ch)

(* C22: a packet of exactly n_ch * pack_points * 4 bytes decodes to a      *)
(* chunk of pack_points rows by n_ch channels whose value at row r,        *)
(* channel c (counted from 0) is the little-endian float at position       *)
(* r * n_ch + c of the packet.                                             *)
C22_RowMajorLittleEndian ==
    (/\ call.fn = "tcp" /\ call.stage = 1
     /\ Len(call.raw_bytes) = call.n_ch * call.pack_points * 4) =>
        /\ call.out.res = "chunk"
        /\ Len(call.out.chunk) = call.pack_points
        /\ \A r \in 0..(call.pack_points - 1) :
              /\ Len(call.out.chunk[r + 1]) = call.n_ch
              /\ \A c \in 0..(call.n_ch - 1) :
                    LET pos == r * call.n_ch + c
                        b == SubSeq(call.raw_bytes, 4 * pos + 1, 4 * pos + 4)
                    IN  call.out.chunk[r + 1][c + 1]
                            = b[1] + 256 * b[2] + 65536 * b[3] + 16777216 * b[4]

(* a 2 x 2 packet decoded, its (0, 1) and (1, 0) floats different *)
C22_Witness ==
    /\ call.fn = "tcp" /\ call.stage = 1
    /\ call.n_ch = 2 /\ call.pack_points = 2
    /\ call.out.res = "chunk"
    /\ call.out.chunk[1][2] = 256
    /\ call.out.chunk[2][1] = 16777216

(* C23: a fit on data that is not 3-dimensional, or on labels without      *)
(* exactly two classes, raises and leaves filters_ as it was before.       *)
C23_RefusedFitKeepsFilters ==
    (/\ call.fn = "csp" /\ call.stage = 1
     /\ (call.ndim # 3 \/ call.n_classes # 2)) =>
        /\ call.out.raised
        /\ call.out.filters_ = call.old

(* a fitted CSP refuses one-class labels and still holds the old filters *)
C23_Witness ==
    /\ call.fn = "csp" /\ call.stage = 1
    /\ call.ndim = 3 /\ call.n_classes = 1 /\ call.eigh_ok
    /\ call.old = OldFilters
    /\ call.out.raised
    /\ call.out.filters_ = OldFilters

(* C24: after a fit that did not raise, the filter matrix has n_components *)
(* rows of n_channels values and transform gives n_components features     *)
(* per trial.                                                              *)
C24_FilterShape ==
    (call.fn = "csp" /\ call.stage = 1 /\ ~call.out.raised) =>
        /\ Len(call.out.filters_.sel) = call.n_components
        /\ call.out.filters_.n_channels = call.n_channels
        /\ ~call.feats.raised
        /\ call.feats.shape = <<call.n_trials, call.n_components>>

(* C25 as stated, a cutoff counting as given when it is not None: the      *)
(* input comes back whenever no cutoff is given, fs <= 0, the data is      *)
(* empty, a given cutoff is at or above Nyquist, or both are given with    *)
(* low >= high.                                                            *)
C25_IdentityWhenNotNone ==
    (/\ call.fn = "butter" /\ call.stage = 1
     /\ \/ (call.f_low = NoCutoff /\ call.f_high = NoCutoff)
        \/ call.fs <= 0
        \/ call.data = <<>>
        \/ (call.f_low # NoCutoff /\ 2 * call.f_low >= call.fs)
        \/ (call.f_high # NoCutoff /\ 2 * call.f_high >= call.fs)
        \/ (call.f_low # NoCutoff /\ call.f_high # NoCutoff
            /\ call.f_low >= call.f_high)) =>
        call.out = Unfiltered(call.data)

(* C25, amended: the same with a cutoff of 0 counting as not given.        *)
C25_IdentityWhenAbsentOrZero ==
    (/\ call.fn = "butter" /\ call.stage = 1
     /\ \/ (~Truthy(call.f_low) /\ ~Truthy(call.f_high))
        \/ call.fs <= 0
        \/ call.data = <<>>
        \/ (Truthy(call.f_low) /\ 2 * call.f_low >= call.fs)
        \/ (Truthy(call.f_high) /\ 2 * call.f_high >= call.fs)
        \/ (Truthy(call.f_low) /\ Truthy(call.f_high)
            /\ call.f_low >= call.f_high)) =>
        call.out = Unfiltered(call.data)

(* a low-pass request at Nyquist on data, fs > 0, the filter design sound *)
C25_Witness ==
    /\ call.fn = "butter" /\ call.stage = 1
    /\ call.data # <<>> /\ call.fs = 8 /\ call.math_ok
    /\ call.f_low = NoCutoff /\ call.f_high = 4
    /\ call.out = Unfiltered(call.data)

(* C30: with a model fitted by one successful training run on trials of    *)
(* the session's channel count (the width bw of the session's RingBuffer)  *)
(* and the scheduler running, a tick that finds a full window and meets no *)
(* numerical failure emits a prediction.                                   *)
C30_TickEmitsInSession ==
    (/\ mlOp.op = "tick" /\ mlOp.win = "ok" /\ mlOp.fail = "none"
     /\ model_ready /\ \E r \in 1..Len(train_runs) : Consistent(r)
     /\ model_csp.nch = mlOp.bw) =>
        mlOp.emitted

(* stop_acquisition has run to its end for session s *)
Stopped(s) ==
    \E i \in 1..Len(sig_connected) :
        sig_connected[i].sid = s /\ sig_connected[i].msg = "disconnected"

(* C26: the log opened for a session has a header of the session's channel *)
(* count followed by the rows of that session's chunks 1..n, each chunk's  *)
(* samples once and in order, and it is written only between the           *)
(* successful connection and stop_acquisition: once stop_acquisition has   *)
(* run for the session the log is closed.                                  *)
C26_LogIsSessionRecord ==
    LET log == runtime.log
    IN  log.sid # 0 =>
           /\ log.sid = thread.id => runtime.header = thread.n_ch
           /\ \E n \in 0..MaxReads :
                 /\ Len(log.rows) = n * SamplesPerChunk
                 /\ \A k \in 1..n : \A i \in 1..SamplesPerChunk :
                       log.rows[(k - 1) * SamplesPerChunk + i] = <<log.sid, k, i>>
           /\ log.open => ~Stopped(log.sid)

(* C27: while a stop_acquisition waits for a thread that is inside a       *)
(* blocked recv, the handle has been closed (which makes the recv return). *)
C27_StopClosesBlockedHandle ==
    (thread.pc = "blocked" /\ \E e \in Executors : stopper[e] = "wait")
        => thread.handle = "closed"

(* C29: a Bluetooth session that met a complete packet on its socket while *)
(* streaming has emitted a data_ready by the time its loop has ended.      *)
C29_BluetoothPacketsEmitted ==
    (thread.cfg.mode = "bluetooth" /\ thread.pc = "done" /\ thread.last = "good")
        => Has(thread.ev, "data_ready")

(* C40: after any sequence of appends 0 <= idx < maxlen, full is set       *)
(* exactly when at least maxlen rows have ever been written, full is never *)
(* cleared, and get_last leaves idx, full and the stored rows as they are. *)
C40_CursorAndFlag ==
    /\ [](/\ 0 <= rb.idx /\ rb.idx < rb.maxlen
          /\ rb.full <=> Len(hist) >= rb.maxlen)
    /\ [][/\ rb.full => rb'.full
          /\ lastOp'.op = "get_last" => rb' = rb]_vars

(* a wrapped buffer with the cursor inside the store, just read *)
C40_Witness ==
    /\ rb.full /\ rb.idx > 0
    /\ Len(hist) > rb.maxlen
    /\ lastOp.op = "get_last" /\ ret.res # None

(* C31: a chunk handled while a capture is active extends the sample       *)
(* stream of the capture (its trials followed by its accumulation buffer)  *)
(* by exactly the rows of the chunk, in order; every trial has             *)
(* samples_needed rows and fewer than samples_needed rows stay in the      *)
(* buffer; a capture that ends with this chunk holds the first             *)
(* needed * samples_needed rows of the stream.                             *)
C31_TrialsAreConsecutiveSlices ==
    [][(lastOp'.op = "samples" /\ capture_state # CaptureNone) =>
          LET cs == capture_state
              S == cs.samples_needed
              chunk == SubSeq(hist', Len(hist) + 1, Len(hist'))
              stream == Concat(train_samples[cs.target]) \o cs.buffer \o chunk
              trials == train_samples'[cs.target]
          IN  /\ \A i \in 1..Len(trials) : Len(trials[i]) = S
              /\ IF capture_state' # CaptureNone
                 THEN /\ Concat(trials) \o capture_state'.buffer = stream
                      /\ Len(capture_state'.buffer) < S
                 ELSE /\ Len(trials) = cs.needed
                      /\ Concat(trials) = SubSeq(stream, 1, cs.needed * S)]_vars

(* C33: in demo mode (times in sample periods) each tick advances the      *)
(* phase clock by the chunk length, and the first sample time of a chunk   *)
(* is one sample period after the last sample time of the chunk before it. *)
C33_ClockAdvancesByChunk ==
    call.fn = "demo" =>
        /\ call.t_sim = call.stage * n_gen(call.srate)
        /\ \A j \in 1..(Len(call.chunks) - 1) :
              call.chunks[j + 1][1]
                  = call.chunks[j][Len(call.chunks[j])] + 1

(* C34: whenever both TrialSets hold at least 2 trials, every trial of     *)
(* either set has the same number of samples (so that np.stack and         *)
(* np.concatenate in train_model accept them).                             *)
C34_TrialsSameShape ==
    (Len(train_samples["left"]) >= 2 /\ Len(train_samples["right"]) >= 2) =>
        \A t, u \in Targets :
            \A i \in 1..Len(train_samples[t]) : \A j \in 1..Len(train_samples[u]) :
                Len(train_samples[t][i]) = Len(train_samples[u][j])

----------------------------------------------------------------------------
(* TaskModule: the trial timeline of the task paradigm.  A trial is four    *)
(* stages driven by single-shot timers; in loop mode _finish_one schedules  *)
(* the next start_trial after the inter-trial interval.                     *)
MaxLoop == 2          \* largest value of the n_trials spin box
MaxTrialRuns == 3     \* the caller's start_trial is tried below this many trials

(* the four timers start_trial adds, in the order of their timeouts *)
TrialTimers == <<"enter_cue", "enter_imag", "enter_rest", "finish_one">>

emit_stage(t, idx) == [t EXCEPT !.stage_events = @ + 1, !.last_stage = idx]
clear_timers(t) == [t EXCEPT !.timers = <<>>]
add_timer(t, func) == [t EXCEPT !.timers = Append(@, func)]
reset_state(t) == [t EXCEPT !.running = FALSE, !.loop_left = 0, !.total_trials = 0]

start_trial(t, n_trials) ==
    IF t.running THEN t
    ELSE LET n == IF t.loop_switch THEN n_trials ELSE 1
             a == IF t.loop_left = 0
                    THEN [t EXCEPT !.loop_left = n, !.total_trials = n]
                    ELSE t
             b == emit_stage(clear_timers([a EXCEPT !.running = TRUE]), 0)
         IN  [b EXCEPT !.timers = TrialTimers, !.trials = @ + 1]

finish_one(t) ==
    LET a == [t EXCEPT !.cnt_total = @ + 1, !.loop_left = @ - 1, !.running = FALSE]
    IN  IF a.loop_left > 0 /\ a.loop_switch
          THEN add_timer(a, "start_trial")
          ELSE reset_state(a)

abort_trial(t) ==
    IF ~t.running THEN t ELSE clear_timers(reset_state(t))

(* the slot of one timer *)
timeout(t, func, n_trials) ==
    CASE func = "enter_cue" -> emit_stage(t, 1)
      [] func = "enter_imag" -> emit_stage(t, 2)
      [] func = "enter_rest" -> emit_stage(t, 3)
      [] func = "finish_one" -> finish_one(t)
      [] OTHER -> start_trial(t, n_trials)

TaskPinned == <<call, logio, acqVars, mlVars, sessVars, rbVars, lastOp, calVars, flowVars>>

(* the caller presses Start (or the dashboard calls start_trial) *)
StartTrial(n_trials) ==
    /\ task.trials < MaxTrialRuns
    /\ task' = [start_trial(task, n_trials) EXCEPT !.aborted = FALSE]
    /\ UNCHANGED TaskPinned

(* the caller switches loop mode on or off *)
SetLoop(on) ==
    /\ task.loop_switch # on
    /\ task' = [task EXCEPT !.loop_switch = on]
    /\ UNCHANGED TaskPinned

(* the earliest pending single-shot timer fires *)
TimerFires(n_trials) ==
    /\ task.timers # <<>>
    /\ task' = timeout([task EXCEPT !.timers = Tail(@)], Head(task.timers), n_trials)
    /\ UNCHANGED TaskPinned

(* the caller presses Stop (or the dashboard calls abort_trial) *)
AbortTrial ==
    /\ task' = [abort_trial(task) EXCEPT !.aborted = TRUE]
    /\ UNCHANGED TaskPinned

NextTask ==
    \/ \E n \in 1..MaxLoop : StartTrial(n)
    \/ \E on \in BOOLEAN : SetLoop(on)
    \/ \E n \in 1..MaxLoop : TimerFires(n)
    \/ AbortTrial

SpecTask == InitAcq /\ [][NextTask]_vars

(* C39: once abort_trial has been invoked, and until the caller invokes     *)
(* start_trial again, no step starts a trial and no step emits a stage      *)
(* event, at whatever point of a multi-trial loop the abort came.           *)
C39_AbortStopsRun ==
    [][(task.aborted /\ task'.aborted) =>
          /\ task'.trials = task.trials
          /\ task'.stage_events = task.stage_events]_vars

----------------------------------------------------------------------------
(* Online prediction across sessions: the handlers that create the buffer  *)
(* (_on_thread_connection_result -> _init_runtime_resources) and end a     *)
(* session (stop_acquisition), next to train_model, toggle_prediction and  *)
(* the timeouts of predict_timer.  stop_acquisition stops the timer and    *)
(* closes the log; it leaves self.buffer and the model in place.           *)
OnlineTrials == 2   \* trials per TrialSet of the train_model calls tried here

(* the last event on sig_connected reports a successful connection *)
SessionConnected ==
    sig_connected # <<>> /\ sig_connected[Len(sig_connected)].ok

OnlinePinned == <<pureVars, acqVars, rbVars, lastOp, calVars, flowVars>>

(* _on_thread_connection_result(True, msg) of the next session *)
OnlineConnected(cfg) ==
    /\ ~SessionConnected
    /\ runtime.inited < MaxSessions
    /\ runtime' = init_runtime_resources(runtime, cfg, runtime.inited + 1)
    /\ sig_connected' = Append(sig_connected,
                               Outcome(TRUE, runtime.inited + 1, "result", "worker"))
    /\ config' = cfg
    /\ UNCHANGED <<thread, sigQ, stopper, mlVars, OnlinePinned>>

(* stop_acquisition, called by the caller (gui) or by the handler of a     *)
(* failed or lost connection (worker)                                      *)
OnlineStop(e) ==
    /\ Cardinality({i \in 1..Len(sig_connected) : ~sig_connected[i].ok}) < MaxStops
    /\ runtime' = close_log(runtime)
    /\ predict_timer' = FALSE
    /\ sig_connected' = Append(sig_connected,
                               Outcome(FALSE, runtime.inited, "disconnected", e))
    /\ mlOp' = [NoMlOp EXCEPT !.op = "stop_acquisition"]
    /\ UNCHANGED <<model_csp, scaler, model_clf, model_ready, train_runs,
                   config, thread, sigQ, stopper, OnlinePinned>>

(* a timeout of predict_timer: self.buffer is None until the first         *)
(* _init_runtime_resources and the buffer of the last session afterwards   *)
OnlineTick(win, fail) ==
    /\ win = "no_buffer" <=> runtime.inited = 0
    /\ PredictionTick(win, runtime.buffer.width, fail)

NextOnline ==
    \/ \E cfg \in Configs : OnlineConnected(cfg)
    \/ \E e \in Executors : OnlineStop(e)
    \/ \E w \in Widths, fail \in {"none", "csp_fit"} :
          TrainModel(OnlineTrials, OnlineTrials, w, fail)
    \/ \E running \in BOOLEAN : TogglePrediction(running)
    \/ \E win \in TickWindows, fail \in TickFailures : OnlineTick(win, fail)

SpecOnline == InitAcq /\ [][NextOnline]_vars

(* C38: a prediction event is emitted only while a session is connected:   *)
(* a timeout of predict_timer that emits finds the last event on           *)
(* sig_connected to be a successful connection, not a disconnection and    *)
(* not the state before the first connection.                              *)
C38_PredictionOnlyWhileConnected ==
    (mlOp.op = "tick" /\ mlOp.emitted) => SessionConnected

----------------------------------------------------------------------------
(* The raw-sample log, statement by statement.  EEGModule calls            *)
(* stop_acquisition directly, in the caller's thread, while                *)
(* _on_thread_connection_result and _on_data_received are slots run by     *)
(* the worker's thread; nothing orders the caller's statements with the    *)
(* slots' statements.  The two slots run one at a time.                    *)
MaxLogSessions == 2   \* successful connections
MaxLogChunks == 3     \* chunks emitted over one behaviour
MaxLogStops == 2      \* the caller's stop_acquisition calls

(* _init_runtime_resources, line 336: self.csv_file = open(path, 'w') *)
log_open(l) ==
    [l EXCEPT !.file = "open", !.csv_file = TRUE, !.rows = 0, !.i = "writer",
              !.sessions = @ + 1]

(* lines 337-339: csv.writer(self.csv_file) raises on None; writerow of    *)
(* the header raises on a closed file; the except clause reports either    *)
log_writer(l) ==
    IF ~l.csv_file THEN [l EXCEPT !.i = "idle"]
    ELSE [l EXCEPT !.csv_writer = TRUE, !.i = "idle",
                   !.rows = IF l.file = "open" THEN 1 ELSE l.rows]

(* _on_data_received, line 376: if self.csv_writer *)
log_test(l) ==
    [l EXCEPT !.queued = @ - 1, !.h = IF l.csv_writer THEN "rows" ELSE "append"]

(* line 384: self.csv_writer.writerows(rows), reading the attribute again  *)
log_writerows(l) ==
    CASE ~l.csv_writer -> [l EXCEPT !.h = "idle", !.fault = "AttributeError"]
      [] l.csv_writer /\ l.file # "open" ->
            [l EXCEPT !.h = "idle", !.fault = "ValueError", !.wrote_closed = TRUE]
      [] OTHER -> [l EXCEPT !.rows = @ + SamplesPerChunk, !.h = "append"]

(* lines 386-389: buffer.append(chunk); sig_samples_ready.emit(chunk) *)
log_forward(l) == [l EXCEPT !.h = "idle", !.forwarded = @ + 1]

(* stop_acquisition, line 352: if self.csv_file *)
log_stop_test(l) ==
    [l EXCEPT !.s = IF l.csv_file THEN "close" ELSE "idle", !.stops = @ + 1]
(* line 353: self.csv_file.close() *)
log_stop_close(l) == [l EXCEPT !.file = "closed", !.s = "clear_file"]
(* line 354: self.csv_file = None *)
log_stop_clear_file(l) == [l EXCEPT !.csv_file = FALSE, !.s = "clear_writer"]
(* line 355: self.csv_writer = None *)
log_stop_clear_writer(l) == [l EXCEPT !.csv_writer = FALSE, !.s = "idle"]

LogPinned == <<call, task, acqVars, mlVars, sessVars, rbVars, lastOp, calVars, flowVars>>

(* the worker's thread takes connection_result(True) from its queue *)
LogInitOpen ==
    /\ logio.h = "idle" /\ logio.i = "idle"
    /\ logio.sessions < MaxLogSessions
    /\ logio' = log_open(logio)
    /\ UNCHANGED LogPinned

LogInitWriter ==
    /\ logio.i = "writer"
    /\ logio' = log_writer(logio)
    /\ UNCHANGED LogPinned

(* the acquisition thread of a connected session emits data_ready *)
LogChunkEmitted ==
    /\ logio.sessions > 0
    /\ logio.chunks < MaxLogChunks
    /\ logio' = [logio EXCEPT !.queued = @ + 1, !.chunks = @ + 1]
    /\ UNCHANGED LogPinned

(* the worker's thread takes data_ready from its queue *)
LogHandlerTest ==
    /\ logio.h = "idle" /\ logio.i = "idle"
    /\ logio.queued > 0
    /\ logio' = log_test(logio)
    /\ UNCHANGED LogPinned

LogHandlerWrite ==
    /\ logio.h = "rows"
    /\ logio' = log_writerows(logio)
    /\ UNCHANGED LogPinned

LogHandlerForward ==
    /\ logio.h = "append"
    /\ logio' = log_forward(logio)
    /\ UNCHANGED LogPinned

(* EEGModule._on_btn_disconnect: self.worker.stop_acquisition() *)
LogStopTest ==
    /\ logio.s = "idle"
    /\ logio.stops < MaxLogStops
    /\ logio' = log_stop_test(logio)
    /\ UNCHANGED LogPinned

LogStopStep ==
    /\ logio.s # "idle"
    /\ logio' = CASE logio.s = "close" -> log_stop_close(logio)
                  [] logio.s = "clear_file" -> log_stop_clear_file(logio)
                  [] OTHER -> log_stop_clear_writer(logio)
    /\ UNCHANGED LogPinned

NextLog ==
    \/ LogInitOpen
    \/ LogInitWriter
    \/ LogChunkEmitted
    \/ LogHandlerTest
    \/ LogHandlerWrite
    \/ LogHandlerForward
    \/ LogStopTest
    \/ LogStopStep

SpecLog == InitAcq /\ [][NextLog]_vars

(* C37: no write of raw-sample rows is issued on a log that has been       *)
(* closed: whenever the chunk handler executes its writerows statement     *)
(* with a writer, the file behind the writer is open, in every             *)
(* interleaving of the caller's stop_acquisition with the handler.         *)
C37_WritesOnlyWhileOpen ==
    [][(logio.h = "rows" /\ logio'.h # "rows" /\ logio.csv_writer)
          => logio.file = "open"]_vars

----------------------------------------------------------------------------
(* the signal the worker's thread handles in this step of the session view *)
Handled(sigs) == sigQ # <<>> /\ sigQ' = Tail(sigQ) /\ Head(sigQ).sig \in sigs

(* C35: once stop_acquisition has emitted the disconnected event of a      *)
(* session, handling a chunk of that session that was still queued neither *)
(* appends it to the RingBuffer nor forwards it as a raw-chunk event.      *)
C35_NoChunkAfterDisconnected ==
    [][(Handled({"data_ready"}) /\ Stopped(Head(sigQ).sid)) =>
          /\ runtime'.appended = runtime.appended
          /\ runtime'.forwarded = runtime.forwarded]_vars

(* C36: the handler of a connection-failure or runtime-error event of an   *)
(* earlier session leaves the running flag of the session started after   *)
(* it set.                                                                 *)
C36_StaleFailureSparesNewSession ==
    [][(/\ Handled({"connection_result_false", "error_occurred"})
        /\ Head(sigQ).sid # thread.id
        /\ thread.ref /\ thread.running) => thread'.running]_vars

(* With the slots taken as atomic steps, the chunks of the present session *)
(* that have been handled were appended and forwarded once each, in        *)
(* emission order, and the buffer they went to is the one created for      *)
(* this session.                                                           *)
OfSession(seq, s) == SelectSeq(seq, LAMBDA c : c[1] = s)
PendingChunks(s) ==
    Cardinality({i \in 1..Len(sigQ) :
                    sigQ[i].sig = "data_ready" /\ sigQ[i].sid = s})
SessionChunksInOrder ==
    LET s == thread.id
        want == [k \in 1..(thread.reads - PendingChunks(s)) |-> <<s, k>>]
    IN  (thread.id > 0 /\ want # <<>>) =>
           /\ runtime.inited = s
           /\ OfSession(runtime.appended, s) = want
           /\ OfSession(runtime.forwarded, s) = want

(* C32: every chunk the acquisition thread emitted has, once the worker's  *)
(* thread is through with it, been appended to the RingBuffer and          *)
(* forwarded as a raw-chunk event.                                         *)
C32_EveryChunkAppendedAndForwarded ==
    (logio.h = "idle") => logio.forwarded = logio.chunks - logio.queued
====
